---- MODULE Spec2Model ----
(***************************************************************************)
(* F1ClashManager: the upgrade-progress calculator (src/src/utils/utils.py),*)
(* the level-based stat interpolator (src/src/data/raw_data_processor.py)  *)
(* and the series matcher (src/modules/loadouts.py,                        *)
(* src/src/core/series_data.py).                                           *)
(*                                                                         *)
(* Python dictionaries are TLA+ functions whose DOMAIN is the key set,     *)
(* None is NoneVal.  The floats of a component bundle are exact rationals   *)
(* [n, d] in lowest terms (real arithmetic); the floats that a driver      *)
(* bundle rounds to integers, and the scores of the series matcher, are    *)
(* IEEE-754 doubles, computed bit for bit.                                 *)
(***************************************************************************)
EXTENDS Integers, Sequences, FiniteSets, TLC

VARIABLES
    item,          \* the item dictionary handed to update_item_upgrade_info
    cards_owned,   \* its cards_owned argument
    upc,           \* "call" before update_item_upgrade_info ran, then how it
                   \* ended: "returned" (an item) or "raised" (a failure signal)
    kind,          \* which raw data file is in play: "component" or "driver"
    raw_data,      \* the content of that JSON file: item key -> [levels -> bundle]
    call,          \* the arguments of the last get_*_stats call, or NoneVal
    result,        \* what that call returned
    SERIES_DATA,   \* the series catalog loaded by get_series_data
    rotating_file, \* the dictionary of rotating_series.json, NoneVal if absent
    loadouts,      \* the saved loadouts
    series_call,   \* the last call of the series matcher, or NoneVal
    series_result, \* what that call returned
    catalog,       \* the item catalog on disk: drivers.json and the component files
    gp_call,       \* the last call of the Grand Prix eligibility code, or NoneVal
    gp_result,     \* what that call returned
    agg_call,      \* the slots handed to the loadout aggregator, or NoneVal
    agg_result,    \* the calculations block it returned
    inventory,     \* the item records stored by the importers
    import_call,   \* the last import that ran, or NoneVal
    import_result, \* True / False: whether that import reported success
    saved_loadouts,    \* the "loadouts" list of loadouts.json
    original_loadouts, \* that list as it was before any deletion
    driver_dict,   \* the driver record the caller of standardize_driver holds
    std_call,      \* the argument of the last standardize_driver call as it
                   \* was when passed, or NoneVal
    std_result     \* the record standardize_driver returned

vars == <<item, cards_owned, upc, kind, raw_data, call, result,
          SERIES_DATA, rotating_file, loadouts, series_call, series_result,
          catalog, gp_call, gp_result, agg_call, agg_result,
          inventory, import_call, import_result,
          saved_loadouts, original_loadouts, driver_dict, std_call, std_result>>

upgradeVars == <<item, cards_owned, upc>>
statsVars == <<kind, raw_data, call, result>>
seriesVars == <<SERIES_DATA, rotating_file, loadouts, series_call, series_result>>
gpVars == <<catalog, gp_call, gp_result>>
aggVars == <<agg_call, agg_result>>
importVars == <<inventory, import_call, import_result>>
deleteVars == <<saved_loadouts, original_loadouts>>
stdVars == <<driver_dict, std_call, std_result>>

\* Python's None
NoneVal == [none |-> TRUE]

\* the empty dictionary {}
EmptyDict == [k \in {} |-> 0]

\* the series matcher is not in play
SeriesIdle ==
    /\ SERIES_DATA = <<>>
    /\ rotating_file = NoneVal
    /\ loadouts = <<>>
    /\ series_call = NoneVal
    /\ series_result = NoneVal

\* the Grand Prix eligibility code is not in play
GrandPrixIdle ==
    /\ catalog = NoneVal
    /\ gp_call = NoneVal
    /\ gp_result = NoneVal

\* the loadout aggregator is not in play
AggregatorIdle ==
    /\ agg_call = NoneVal
    /\ agg_result = NoneVal

\* the importers are not in play
ImportIdle ==
    /\ inventory = <<>>
    /\ import_call = NoneVal
    /\ import_result = NoneVal

\* the loadout list is not in play
DeleteIdle ==
    /\ saved_loadouts = <<>>
    /\ original_loadouts = <<>>

\* standardize_driver is not in play
StandardizeIdle ==
    /\ driver_dict = NoneVal
    /\ std_call = NoneVal
    /\ std_result = NoneVal

\* none of the components above is in play
LaterIdle ==
    /\ GrandPrixIdle
    /\ AggregatorIdle
    /\ ImportIdle
    /\ DeleteIdle
    /\ StandardizeIdle

\* dict.get(key, default)
DictGet(d, key, default) == IF key \in DOMAIN d THEN d[key] ELSE default

\* sum(d.values())
RECURSIVE SumOver(_, _)
SumOver(d, keys) ==
    IF keys = {} THEN 0
    ELSE LET k == CHOOSE x \in keys : TRUE
         IN  d[k] + SumOver(d, keys \ {k})

SumValues(d) == SumOver(d, DOMAIN d)

(***************************************************************************)
(* Upgrade-progress calculator                                             *)
(***************************************************************************)

\* range(current_level + 1, 12): the exclusive upper end of every level walk
LevelCap == 12

Rarities == {"Common", "Rare", "Epic", "Legendary"}

\* get_cards_per_level: the cards required to upgrade to each level
get_cards_per_level(rarity) ==
    CASE rarity = "Common" ->
            (2 :> 4 @@ 3 :> 10 @@ 4 :> 20 @@ 5 :> 50 @@ 6 :> 100 @@ 7 :> 200
             @@ 8 :> 400 @@ 9 :> 800 @@ 10 :> 1000 @@ 11 :> 5000)
      [] rarity = "Rare" ->
            (2 :> 2 @@ 3 :> 5 @@ 4 :> 10 @@ 5 :> 20 @@ 6 :> 50 @@ 7 :> 100
             @@ 8 :> 200 @@ 9 :> 400 @@ 10 :> 500 @@ 11 :> 2000)
      [] rarity = "Epic" ->
            (2 :> 1 @@ 3 :> 2 @@ 4 :> 5 @@ 5 :> 10 @@ 6 :> 20 @@ 7 :> 50
             @@ 8 :> 100 @@ 9 :> 200 @@ 10 :> 250 @@ 11 :> 800)
      [] rarity = "Legendary" ->
            (2 :> 1 @@ 3 :> 1 @@ 4 :> 2 @@ 5 :> 5 @@ 6 :> 10 @@ 7 :> 20
             @@ 8 :> 50 @@ 9 :> 100 @@ 10 :> 150 @@ 11 :> 400)
      [] OTHER -> EmptyDict

\* sum([cards_per_level.get(level, 0) for level in range(lo, hi)])
RECURSIVE SumRange(_, _, _)
SumRange(cards_per_level, lo, hi) ==
    IF lo >= hi THEN 0
    ELSE DictGet(cards_per_level, lo, 0) + SumRange(cards_per_level, lo + 1, hi)

\* mutant: the walk forgets to spend the cards it pays with
RECURSIVE LevelWalkNoSpend(_, _, _, _)
LevelWalkNoSpend(cards_per_level, level, highest_level, owned) ==
    IF level >= LevelCap THEN highest_level
    ELSE LET cards_needed == DictGet(cards_per_level, level, 0)
         IN  IF owned >= cards_needed
             THEN LevelWalkNoSpend(cards_per_level, level + 1, level, owned)
             ELSE highest_level

\* the body of the loop `for level in range(current_level + 1, 12)` of
\* calculate_highest_level, from target level `level` on
RECURSIVE LevelWalk(_, _, _, _)
LevelWalk(cards_per_level, level, highest_level, owned) ==
    IF level >= LevelCap THEN highest_level
    ELSE LET cards_needed == DictGet(cards_per_level, level, 0)
         IN  IF owned >= cards_needed
             THEN LevelWalk(cards_per_level, level + 1, level, owned - cards_needed)
             ELSE highest_level

calculate_highest_level(it, owned) ==
    IF it.level = 0 THEN 0
    ELSE LevelWalk(get_cards_per_level(it.rarity), it.level + 1, it.level, owned)

\* mutant: range(2, level) leaves the current level's cost out
used_cards_short(it) == SumRange(get_cards_per_level(it.rarity), 2, it.level)

\* used_cards of update_item_upgrade_info
used_cards(it) == SumRange(get_cards_per_level(it.rarity), 2, it.level + 1)

\* mutant: range(level, 12) counts the current level's cost again
remaining_cards_from_current(it) ==
    SumRange(get_cards_per_level(it.rarity), it.level, LevelCap)

\* cards_needed of update_item_upgrade_info (remaining_levels summed)
remaining_cards(it) == SumRange(get_cards_per_level(it.rarity), it.level + 1, LevelCap)

\* the item as update_item_upgrade_info returns it
update_item_upgrade_info(it, owned) ==
    [ rarity       |-> it.rarity,
      level        |-> it.level,
      highestLevel |-> calculate_highest_level(it, owned),
      upgradeInfo  |-> [ cardsOwned  |-> owned,
                         perLevel    |-> get_cards_per_level(it.rarity),
                         maxCards    |-> SumValues(get_cards_per_level(it.rarity)),
                         cardsNeeded |-> remaining_cards(it),
                         totalCards  |-> owned + used_cards(it) ] ]

\* ---- inputs of the upgrade calculator

\* every cards_owned value from 0 up to this is tried
MaxSmallCards == 12

\* rarities outside the fixed set: the importer's "" for a blank cell, a
\* mis-cased name
OtherRarities == {"", "common"}

RarityInputs == Rarities \cup OtherRarities

LevelInputs == 0 .. (LevelCap - 1)

\* the cost of every run of consecutive levels, where the walk changes its answer
RangeCosts ==
    { SumRange(get_cards_per_level(r), a, b) :
        r \in Rarities, a \in 2 .. LevelCap, b \in 2 .. LevelCap }

\* the card counts of tests/test_highest_level.py
TestCards == {1009, 1631, 677, 7, 500, 783, 784}

CardInputs ==
    ((0 .. MaxSmallCards) \cup TestCards
        \cup { c + d : c \in RangeCosts, d \in {-1, 0, 1} }) \ {-1}

StatsIdle ==
    /\ kind = "component"
    /\ raw_data = NoneVal
    /\ call = NoneVal
    /\ result = NoneVal

InitUpgrade ==
    /\ \E r \in RarityInputs, l \in LevelInputs :
          item = [ rarity |-> r, level |-> l,
                   highestLevel |-> NoneVal, upgradeInfo |-> EmptyDict ]
    /\ cards_owned \in CardInputs
    /\ upc = "call"
    /\ StatsIdle
    /\ SeriesIdle
    /\ LaterIdle

\* update_item_upgrade_info has no raise and no error return: for the inputs
\* drawn here (a rarity string, an integer level) it always returns the item
UpdateItemUpgradeInfo ==
    /\ upc = "call"
    /\ item' = update_item_upgrade_info(item, cards_owned)
    /\ upc' = "returned"
    /\ UNCHANGED <<cards_owned, statsVars, seriesVars, gpVars, aggVars, importVars, deleteVars, stdVars>>

NextUpgrade == UpdateItemUpgradeInfo

SpecUpgrade == InitUpgrade /\ [][NextUpgrade]_vars

(***************************************************************************)
(* Stat interpolator: raw level tables and get_component_stats /           *)
(* get_driver_stats                                                        *)
(***************************************************************************)

\* ---- Python floats as exact rationals [n |-> numerator, d |-> denominator]

RECURSIVE GCD(_, _)
GCD(a, b) == IF b = 0 THEN a ELSE GCD(b, a % b)

Abs(x) == IF x < 0 THEN -x ELSE x

\* n / d in lowest terms, d > 0
Rat(n, d) ==
    LET g == GCD(Abs(n), d)
    IN  IF n = 0 THEN [n |-> 0, d |-> 1] ELSE [n |-> n \div g, d |-> d \div g]

\* float(i)
RatInt(i) == [n |-> i, d |-> 1]

RatAdd(x, y) == Rat(x.n * y.d + y.n * x.d, x.d * y.d)
RatSub(x, y) == Rat(x.n * y.d - y.n * x.d, x.d * y.d)
RatMul(x, y) == Rat(x.n * y.n, x.d * y.d)
RatLe(x, y) == x.n * y.d <= y.n * x.d

\* round(x) of Python 3: to the nearest integer, a tie to the even one
PyRound(x) ==
    LET fl  == x.n \div x.d
        rem == x.n - fl * x.d
    IN  IF 2 * rem < x.d THEN fl
        ELSE IF 2 * rem > x.d THEN fl + 1
        ELSE IF fl % 2 = 0 THEN fl ELSE fl + 1

\* ---- the raw data files

\* the levels of the game's items: 1 .. 11
Levels == 1 .. (LevelCap - 1)

\* a CSV cell is <<value>>, or NaN for a blank one (pandas reads it as NaN)
NaN == <<>>

\* the one item of the CSV files explored, and the driver's rarity
ItemName == "The Stabiliser"
DriverRarity == "Epic"

\* f"{driver_name}_{rarity}"
DriverKey(driver_name, rarity) == driver_name \o "_" \o rarity

\* mutant: the stored total leaves pit_time out
ComponentEntryNoPitTime(level, row) ==
    [ level       |-> level,
      speed       |-> row.speed,
      cornering   |-> row.cornering,
      power_unit  |-> row.power_unit,
      qualifying  |-> row.qualifying,
      pit_time    |-> row.pit_time,
      total_value |-> RatAdd(RatAdd(RatAdd(row.speed, row.cornering),
                                 row.power_unit), row.qualifying) ]

\* the bundle process_component_raw_data stores for a row
ComponentEntry(level, row) ==
    [ level       |-> level,
      speed       |-> row.speed,
      cornering   |-> row.cornering,
      power_unit  |-> row.power_unit,
      qualifying  |-> row.qualifying,
      pit_time    |-> row.pit_time,
      total_value |-> RatAdd(RatAdd(RatAdd(RatAdd(row.speed, row.cornering),
                                 row.power_unit), row.qualifying), row.pit_time) ]

\* the bundle process_driver_raw_data stores for a row
DriverEntry(level, row) ==
    [ level       |-> level,
      overtaking  |-> row.overtaking,
      defending   |-> row.defending,
      qualifying  |-> row.qualifying,
      race_start  |-> row.race_start,
      tyre_mgmt   |-> row.tyre_mgmt,
      total_value |-> row.overtaking + row.defending + row.qualifying
                        + row.race_start + row.tyre_mgmt ]

\* the loop over the rows of one item: a later row of a level replaces an
\* earlier one; process_driver_raw_data skips a row whose Level is NaN
RECURSIVE AddRows(_, _, _, _)
AddRows(levels, csv, i, kd) ==
    IF i > Len(csv) THEN levels
    ELSE LET row == csv[i]
         IN  IF row.level = NaN THEN AddRows(levels, csv, i + 1, kd)
             ELSE LET level == row.level[1]  \* int(row["Level"])
                  IN  AddRows(
                        [l \in DOMAIN levels \cup {level} |->
                            IF l = level
                            THEN IF kd = "component"
                                 THEN ComponentEntry(level, row.stats)
                                 ELSE DriverEntry(level, row.stats)
                            ELSE levels[l]],
                        csv, i + 1, kd)

\* component_data as process_component_raw_data dumps it: one entry per unique
\* Name of the CSV
ComponentData(csv) ==
    IF Len(csv) = 0 THEN EmptyDict
    ELSE (ItemName :> [name |-> ItemName, levels |-> AddRows(EmptyDict, csv, 1, "component")])

\* driver_data as process_driver_raw_data dumps it: one entry per driver and rarity
DriverData(csv) ==
    IF Len(csv) = 0 THEN EmptyDict
    ELSE (DriverKey(ItemName, DriverRarity) :>
            [name |-> ItemName, rarity |-> DriverRarity,
             levels |-> AddRows(EmptyDict, csv, 1, "driver")])

\* ---- get_component_stats / get_driver_stats

\* level_numbers after level_numbers.sort()
RECURSIVE SortedLevels(_)
SortedLevels(S) ==
    IF S = {} THEN <<>>
    ELSE LET m == CHOOSE x \in S : \A y \in S : x <= y
         IN  <<m>> \o SortedLevels(S \ {m})

\* lower_level = None / higher_level = None; a level found is <<l>>
NoLevel == <<>>

\* mutant: no break, higher_level ends as the highest level above
RECURSIVE ClosestLevelsNoBreak(_, _, _, _)
ClosestLevelsNoBreak(level_numbers, i, level, lower_level) ==
    IF i > Len(level_numbers) THEN <<lower_level, NoLevel>>
    ELSE IF level_numbers[i] < level
         THEN ClosestLevelsNoBreak(level_numbers, i + 1, level, <<level_numbers[i]>>)
         ELSE IF level_numbers[i] > level
              THEN <<lower_level, <<level_numbers[Len(level_numbers)]>> >>
              ELSE ClosestLevelsNoBreak(level_numbers, i + 1, level, lower_level)

\* mutant: lower_level is set once, to the first level below
RECURSIVE ClosestLevelsFirstLower(_, _, _, _)
ClosestLevelsFirstLower(level_numbers, i, level, lower_level) ==
    IF i > Len(level_numbers) THEN <<lower_level, NoLevel>>
    ELSE IF level_numbers[i] < level
         THEN ClosestLevelsFirstLower(level_numbers, i + 1, level,
                IF lower_level = NoLevel THEN <<level_numbers[i]>> ELSE lower_level)
         ELSE IF level_numbers[i] > level
              THEN <<lower_level, <<level_numbers[i]>> >>
              ELSE ClosestLevelsFirstLower(level_numbers, i + 1, level, lower_level)

\* the loop `for l in level_numbers` that finds the closest lower and higher
\* levels: <<lower_level, higher_level>>
RECURSIVE ClosestLevels(_, _, _, _)
ClosestLevels(level_numbers, i, level, lower_level) ==
    IF i > Len(level_numbers) THEN <<lower_level, NoLevel>>
    ELSE IF level_numbers[i] < level
         THEN ClosestLevels(level_numbers, i + 1, level, <<level_numbers[i]>>)
         ELSE IF level_numbers[i] > level
              THEN <<lower_level, <<level_numbers[i]>> >>
              ELSE ClosestLevels(level_numbers, i + 1, level, lower_level)

\* factor = (level - lower_level) / (higher_level - lower_level)
Factor(level, lower_level, higher_level) ==
    Rat(level - lower_level, higher_level - lower_level)

\* mutant: the factor scales the higher stat, not the difference
LerpNoDifference(lower, factor, higher) == RatAdd(lower, RatMul(factor, higher))

\* lower + factor * (higher - lower)
Lerp(lower, factor, higher) == RatAdd(lower, RatMul(factor, RatSub(higher, lower)))

\* interpolated_stats of get_component_stats
ComponentInterpolated(level, lower_stats, higher_stats, factor) ==
    LET st == [ level      |-> level,
                speed      |-> Lerp(lower_stats.speed, factor, higher_stats.speed),
                cornering  |-> Lerp(lower_stats.cornering, factor, higher_stats.cornering),
                power_unit |-> Lerp(lower_stats.power_unit, factor, higher_stats.power_unit),
                qualifying |-> Lerp(lower_stats.qualifying, factor, higher_stats.qualifying),
                pit_time   |-> Lerp(lower_stats.pit_time, factor, higher_stats.pit_time) ]
    IN  [ level       |-> st.level,
          speed       |-> st.speed,
          cornering   |-> st.cornering,
          power_unit  |-> st.power_unit,
          qualifying  |-> st.qualifying,
          pit_time    |-> st.pit_time,
          total_value |-> RatAdd(RatAdd(RatAdd(RatAdd(st.speed, st.cornering),
                                     st.power_unit), st.qualifying), st.pit_time) ]

\* ---- Python floats (IEEE-754 binary64) on the driver path
\* A float is a sign and a magnitude; the magnitude is a fixed-point number of
\* FloatLimbs limbs of LimbBits bits each (least significant first), the low
\* FracLimbs of them below the binary point.
LimbBits == 15
FracLimbs == 5
FloatLimbs == FracLimbs + 2
MantissaBits == 53

RECURSIVE Pow2(_)
Pow2(n) == IF n = 0 THEN 1 ELSE 2 * Pow2(n - 1)

LimbBase == Pow2(LimbBits)

\* the magnitude of an integer 0 <= i < LimbBase^2
MagOfInt(i) ==
    [j \in 1 .. FloatLimbs |->
        IF j = FracLimbs + 1 THEN i % LimbBase
        ELSE IF j = FracLimbs + 2 THEN i \div LimbBase
        ELSE 0]

\* 2^b as a magnitude, b counted from the lowest bit of the fixed-point number
MagPow2(b) ==
    [j \in 1 .. FloatLimbs |->
        IF j = (b \div LimbBits) + 1 THEN Pow2(b % LimbBits) ELSE 0]

RECURSIVE MagAddFrom(_, _, _, _)
MagAddFrom(a, b, j, carry) ==
    IF j > FloatLimbs THEN <<>>
    ELSE LET s == a[j] + b[j] + carry
         IN  <<s % LimbBase>> \o MagAddFrom(a, b, j + 1, s \div LimbBase)

MagAdd(a, b) == MagAddFrom(a, b, 1, 0)

RECURSIVE MagSubFrom(_, _, _, _)
MagSubFrom(a, b, j, borrow) ==
    IF j > FloatLimbs THEN <<>>
    ELSE LET s == a[j] - b[j] - borrow
         IN  IF s < 0 THEN <<s + LimbBase>> \o MagSubFrom(a, b, j + 1, 1)
             ELSE <<s>> \o MagSubFrom(a, b, j + 1, 0)

\* a - b for a >= b
MagSub(a, b) == MagSubFrom(a, b, 1, 0)

RECURSIVE MagMulFrom(_, _, _, _)
MagMulFrom(a, c, j, carry) ==
    IF j > FloatLimbs THEN <<>>
    ELSE LET s == a[j] * c + carry
         IN  <<s % LimbBase>> \o MagMulFrom(a, c, j + 1, s \div LimbBase)

\* a * c for an integer 0 <= c < LimbBase
MagMul(a, c) == MagMulFrom(a, c, 1, 0)

\* the quotient limbs j .. 1 and the final remainder of a / c, from the top
RECURSIVE MagDivFrom(_, _, _, _)
MagDivFrom(a, c, j, rem) ==
    IF j = 0 THEN [q |-> <<>>, r |-> rem]
    ELSE LET cur  == rem * LimbBase + a[j]
             rest == MagDivFrom(a, c, j - 1, cur % c)
         IN  [q |-> rest.q \o <<cur \div c>>, r |-> rest.r]

\* floor(a / c) and a mod c for an integer 0 < c < LimbBase
MagDiv(a, c) == MagDivFrom(a, c, FloatLimbs, 0)

\* -1, 0, 1 as a < b, a = b, a > b
RECURSIVE MagCmpFrom(_, _, _)
MagCmpFrom(a, b, j) ==
    IF j = 0 THEN 0
    ELSE IF a[j] < b[j] THEN -1
    ELSE IF a[j] > b[j] THEN 1
    ELSE MagCmpFrom(a, b, j - 1)

MagCmp(a, b) == MagCmpFrom(a, b, FloatLimbs)

RECURSIVE BitLength(_)
BitLength(n) == IF n = 0 THEN 0 ELSE 1 + BitLength(n \div 2)

RECURSIVE TopLimb(_, _)
TopLimb(a, j) == IF j = 0 \/ a[j] # 0 THEN j ELSE TopLimb(a, j - 1)

\* the number of significant bits of a magnitude
MagBits(a) ==
    LET h == TopLimb(a, FloatLimbs)
    IN  IF h = 0 THEN 0 ELSE LimbBits * (h - 1) + BitLength(a[h])

\* a with its low s bits cleared
MagClearLow(a, s) ==
    LET ql == s \div LimbBits
        p  == Pow2(s % LimbBits)
    IN  [j \in 1 .. FloatLimbs |->
            IF j <= ql THEN 0
            ELSE IF j = ql + 1 THEN (a[j] \div p) * p
            ELSE a[j]]

\* bit s (from 0) of a
MagBit(a, s) == (a[(s \div LimbBits) + 1] \div Pow2(s % LimbBits)) % 2

\* the nearest magnitude of MantissaBits significant bits, a tie to the even
\* mantissa; sticky says that the exact value lies strictly above a
RoundToMantissa(a, sticky) ==
    LET s == MagBits(a) - MantissaBits
    IN  IF s <= 0 THEN a
        ELSE LET trunc == MagClearLow(a, s)
                 low   == MagCmp(MagSub(a, trunc), MagPow2(s - 1))
                 up    == \/ low = 1
                          \/ low = 0 /\ sticky
                          \/ low = 0 /\ MagBit(a, s) = 1
             IN  IF trunc = a THEN a
                 ELSE IF up THEN MagAdd(trunc, MagPow2(s))
                 ELSE trunc

\* a float of the given sign and magnitude; the two zeros, which compare equal,
\* are one value
MkFloat(neg, mag) == [neg |-> neg /\ MagBits(mag) # 0, mag |-> mag]

\* float(i) for an integer of small magnitude
FloatOfInt(i) == MkFloat(i < 0, MagOfInt(IF i < 0 THEN -i ELSE i))

\* k / den of two integers, k >= 0 and den > 0: the correctly rounded quotient
FloatDiv(k, den) ==
    LET d == MagDiv(MagOfInt(k), den)
    IN  MkFloat(FALSE, RoundToMantissa(d.q, d.r # 0))

\* x * i for a float x and an integer i
FloatMulInt(x, i) ==
    MkFloat(x.neg # (i < 0),
            RoundToMantissa(MagMul(x.mag, IF i < 0 THEN -i ELSE i), FALSE))

\* x + y
FloatAdd(x, y) ==
    IF x.neg = y.neg
    THEN MkFloat(x.neg, RoundToMantissa(MagAdd(x.mag, y.mag), FALSE))
    ELSE IF MagCmp(x.mag, y.mag) >= 0
         THEN MkFloat(x.neg, RoundToMantissa(MagSub(x.mag, y.mag), FALSE))
         ELSE MkFloat(y.neg, RoundToMantissa(MagSub(y.mag, x.mag), FALSE))

\* x - y
FloatSub(x, y) == FloatAdd(x, MkFloat(~y.neg, y.mag))

\* x < y
FloatLt(x, y) ==
    IF x.neg # y.neg THEN x.neg
    ELSE IF x.neg THEN MagCmp(x.mag, y.mag) = 1
    ELSE MagCmp(x.mag, y.mag) = -1

\* i + x for an integer i and a float x
FloatAddInt(i, x) == FloatAdd(FloatOfInt(i), x)

\* round(x) of a float: the nearest integer, a tie to the even one
FloatRound(x) ==
    LET whole == MagClearLow(x.mag, LimbBits * FracLimbs)
        int   == whole[FracLimbs + 1] + LimbBase * whole[FracLimbs + 2]
        low   == MagCmp(MagSub(x.mag, whole), MagPow2(LimbBits * FracLimbs - 1))
        n     == IF low = 1 \/ (low = 0 /\ int % 2 = 1) THEN int + 1 ELSE int
    IN  IF x.neg THEN -n ELSE n

\* round(lower + factor * (higher - lower)) on the integers of a driver
\* bundle, in float arithmetic: factor is the float nearest to the quotient
RoundLerp(lower, factor, higher) ==
    FloatRound(FloatAddInt(lower,
        FloatMulInt(FloatDiv(factor.n, factor.d), higher - lower)))

\* interpolated_stats of get_driver_stats
DriverInterpolated(level, lower_stats, higher_stats, factor) ==
    LET st == [ level      |-> level,
                overtaking |-> RoundLerp(lower_stats.overtaking, factor, higher_stats.overtaking),
                defending  |-> RoundLerp(lower_stats.defending, factor, higher_stats.defending),
                qualifying |-> RoundLerp(lower_stats.qualifying, factor, higher_stats.qualifying),
                race_start |-> RoundLerp(lower_stats.race_start, factor, higher_stats.race_start),
                tyre_mgmt  |-> RoundLerp(lower_stats.tyre_mgmt, factor, higher_stats.tyre_mgmt) ]
    IN  [ level       |-> st.level,
          overtaking  |-> st.overtaking,
          defending   |-> st.defending,
          qualifying  |-> st.qualifying,
          race_start  |-> st.race_start,
          tyre_mgmt   |-> st.tyre_mgmt,
          total_value |-> st.overtaking + st.defending + st.qualifying
                            + st.race_start + st.tyre_mgmt ]

\* mutant: the interpolate flag is ignored
InterpolatedStatsIgnoreFlag(levels, level, interpolate, kd) ==
    IF FALSE THEN NoneVal
    ELSE LET closest      == ClosestLevels(SortedLevels(DOMAIN levels), 1, level, NoLevel)
             lower_level  == closest[1]
             higher_level == closest[2]
         IN  IF lower_level # NoLevel /\ higher_level # NoLevel
             THEN LET factor == Factor(level, lower_level[1], higher_level[1])
                  IN  IF kd = "component"
                      THEN ComponentInterpolated(level, levels[lower_level[1]],
                                                 levels[higher_level[1]], factor)
                      ELSE DriverInterpolated(level, levels[lower_level[1]],
                                              levels[higher_level[1]], factor)
             ELSE IF lower_level # NoLevel THEN levels[lower_level[1]]
             ELSE IF higher_level # NoLevel THEN levels[higher_level[1]]
             ELSE NoneVal

\* the branch `if interpolate:` of both getters, and the final `return None`
InterpolatedStats(levels, level, interpolate, kd) ==
    IF ~interpolate THEN NoneVal
    ELSE LET closest      == ClosestLevels(SortedLevels(DOMAIN levels), 1, level, NoLevel)
             lower_level  == closest[1]
             higher_level == closest[2]
         IN  IF lower_level # NoLevel /\ higher_level # NoLevel
             THEN LET factor == Factor(level, lower_level[1], higher_level[1])
                  IN  IF kd = "component"
                      THEN ComponentInterpolated(level, levels[lower_level[1]],
                                                 levels[higher_level[1]], factor)
                      ELSE DriverInterpolated(level, levels[lower_level[1]],
                                              levels[higher_level[1]], factor)
             ELSE IF lower_level # NoLevel THEN levels[lower_level[1]]
             ELSE IF higher_level # NoLevel THEN levels[higher_level[1]]
             ELSE NoneVal

\* mutant: the exact level is looked up by the integer, never found among the
\* string keys, and the level is interpolated from its neighbours
LevelStatsNoExact(levels, level, interpolate, kd) ==
    InterpolatedStats(levels, level, interpolate, kd)

\* the part both getters share once the item's levels are loaded: the exact
\* level if stored, else the interpolation branch
LevelStats(levels, level, interpolate, kd) ==
    IF level \in DOMAIN levels THEN levels[level]
    ELSE InterpolatedStats(levels, level, interpolate, kd)

\* file is the content of COMPONENT_RAW_DATA_JSON, NoneVal when the file is
\* missing (open raises, the except clause returns None)
get_component_stats(file, component_name, level, interpolate) ==
    IF file = NoneVal THEN NoneVal
    ELSE IF component_name \notin DOMAIN file THEN NoneVal
    ELSE LevelStats(file[component_name].levels, level, interpolate, "component")

get_driver_stats(file, driver_name, rarity, level, interpolate) ==
    IF file = NoneVal THEN NoneVal
    ELSE IF DriverKey(driver_name, rarity) \notin DOMAIN file THEN NoneVal
    ELSE LevelStats(file[DriverKey(driver_name, rarity)].levels, level, interpolate, "driver")

\* ---- inputs of the interpolator

\* the rows of a CSV file explored have at most this many rows
MaxRows == 3

\* component stat rows (The Stabiliser's and The Accord's of
\* tests/test_raw_data.py, speed 10 and 20): speed rises, cornering and
\* pit_time fall, power_unit stays
ComponentRows ==
    { [ speed |-> RatInt(10), cornering |-> RatInt(8), power_unit |-> RatInt(7),
        qualifying |-> RatInt(9), pit_time |-> Rat(77, 100) ],
      [ speed |-> RatInt(20), cornering |-> RatInt(6), power_unit |-> RatInt(7),
        qualifying |-> RatInt(12), pit_time |-> Rat(60, 100) ] }

\* driver stat rows: differences 3, 5, -1, 0 and 45 between the two
DriverRows ==
    { [ overtaking |-> 10, defending |-> 20, qualifying |-> 31,
        race_start |-> 40, tyre_mgmt |-> 0 ],
      [ overtaking |-> 13, defending |-> 25, qualifying |-> 30,
        race_start |-> 40, tyre_mgmt |-> 45 ] }

\* the Level cell of a row: a level or blank
LevelCells == { <<l>> : l \in Levels } \cup {NaN}

CsvFiles(rows) ==
    UNION { [1 .. n -> [level : LevelCells, stats : rows]] : n \in 0 .. MaxRows }

\* the names asked for: the item of the file and one that is not in it
QueryNames == {ItemName, "Unknown"}
QueryRarities == {DriverRarity, "Common"}

\* the levels asked for: below, inside and above 1 .. 11
QueryLevels == 0 .. LevelCap

UpgradeIdle ==
    /\ item = NoneVal
    /\ cards_owned = 0
    /\ upc = "idle"

InitStats ==
    /\ kind \in {"component", "driver"}
    /\ raw_data = NoneVal
    /\ call = NoneVal
    /\ result = NoneVal
    /\ UpgradeIdle
    /\ SeriesIdle
    /\ LaterIdle

\* The file is generated once (scripts/generate_raw_data.py), before it is read.
\* process_component_raw_data: int(row["Level"]) of a blank Level raises, the
\* except clause returns False and no file is written
ProcessComponentRawData ==
    /\ kind = "component"
    /\ raw_data = NoneVal
    /\ call = NoneVal
    /\ \E csv \in CsvFiles(ComponentRows) :
          raw_data' = IF \E i \in 1 .. Len(csv) : csv[i].level = NaN
                      THEN raw_data
                      ELSE ComponentData(csv)
    /\ UNCHANGED <<kind, call, result, upgradeVars, seriesVars, gpVars, aggVars, importVars, deleteVars, stdVars>>

\* process_driver_raw_data: df.iloc[0] of an empty file raises, the except
\* clause returns False and no file is written
ProcessDriverRawData ==
    /\ kind = "driver"
    /\ raw_data = NoneVal
    /\ call = NoneVal
    /\ \E csv \in CsvFiles(DriverRows) :
          raw_data' = IF Len(csv) = 0 THEN raw_data ELSE DriverData(csv)
    /\ UNCHANGED <<kind, call, result, upgradeVars, seriesVars, gpVars, aggVars, importVars, deleteVars, stdVars>>

\* one call of the getter is explored per run: it reads the file and leaves
\* nothing behind, so a second call sees what the first one saw
GetComponentStats ==
    /\ kind = "component"
    /\ call = NoneVal
    /\ \E name \in QueryNames, level \in QueryLevels, interpolate \in BOOLEAN :
          /\ call' = [name |-> name, level |-> level, interpolate |-> interpolate]
          /\ result' = get_component_stats(raw_data, name, level, interpolate)
    /\ UNCHANGED <<kind, raw_data, upgradeVars, seriesVars, gpVars, aggVars, importVars, deleteVars, stdVars>>

GetDriverStats ==
    /\ kind = "driver"
    /\ call = NoneVal
    /\ \E name \in QueryNames, rarity \in QueryRarities,
          level \in QueryLevels, interpolate \in BOOLEAN :
          /\ call' = [name |-> name, rarity |-> rarity, level |-> level,
                      interpolate |-> interpolate]
          /\ result' = get_driver_stats(raw_data, name, rarity, level, interpolate)
    /\ UNCHANGED <<kind, raw_data, upgradeVars, seriesVars, gpVars, aggVars, importVars, deleteVars, stdVars>>

NextStats ==
    \/ ProcessComponentRawData
    \/ ProcessDriverRawData
    \/ GetComponentStats
    \/ GetDriverStats

SpecStats == InitStats /\ [][NextStats]_vars

(***************************************************************************)
(* Series matcher: find_matching_series_for_loadout (src/modules/          *)
(* loadouts.py) and find_best_loadouts_for_series (src/src/core/           *)
(* series_data.py).  A score is a float; strings are Python strings, and   *)
(* the strings explored hold blanks, signs, commas, decimal digits, points *)
(* and letters that float() rejects.                                       *)
(***************************************************************************)


\* the character at position i of a string
CharAt(s, i) == SubSeq(s, i, i)

\* value.replace(',', '')
RECURSIVE RemoveCommas(_)
RemoveCommas(s) ==
    IF Len(s) = 0 THEN ""
    ELSE IF Head(s) = "," THEN RemoveCommas(Tail(s))
    ELSE Head(s) \o RemoveCommas(Tail(s))

\* the blanks that float() ignores around its argument
RECURSIVE StripLeft(_)
StripLeft(s) ==
    IF Len(s) > 0 /\ Head(s) = " " THEN StripLeft(Tail(s)) ELSE s

RECURSIVE StripRight(_)
StripRight(s) ==
    IF Len(s) > 0 /\ CharAt(s, Len(s)) = " "
    THEN StripRight(SubSeq(s, 1, Len(s) - 1)) ELSE s

DecimalDigits == <<"0", "1", "2", "3", "4", "5", "6", "7", "8", "9">>

IsDigit(c) == \E i \in DOMAIN DecimalDigits : DecimalDigits[i] = c

DigitValue(c) == (CHOOSE i \in DOMAIN DecimalDigits : DecimalDigits[i] = c) - 1

RECURSIVE AllDigits(_)
AllDigits(s) == Len(s) = 0 \/ (IsDigit(Head(s)) /\ AllDigits(Tail(s)))

RECURSIVE DigitsValue(_, _)
DigitsValue(s, acc) ==
    IF Len(s) = 0 THEN acc ELSE DigitsValue(Tail(s), 10 * acc + DigitValue(Head(s)))

\* the position of the first "." of s, or 0
RECURSIVE DotAt(_, _)
DotAt(s, i) ==
    IF i > Len(s) THEN 0 ELSE IF CharAt(s, i) = "." THEN i ELSE DotAt(s, i + 1)

\* int(float(value)) of a string of blanks, a sign, decimal digits and a point:
\* <<n>>, or <<>> where float() raises ValueError
IntOfFloatString(value) ==
    LET t        == StripRight(StripLeft(value))
        signed   == Len(t) > 0 /\ Head(t) \in {"+", "-"}
        unsigned == IF signed THEN Tail(t) ELSE t
        dot      == DotAt(unsigned, 1)
        whole    == IF dot = 0 THEN unsigned ELSE SubSeq(unsigned, 1, dot - 1)
        frac     == IF dot = 0 THEN "" ELSE SubSeq(unsigned, dot + 1, Len(unsigned))
        n        == DigitsValue(whole, 0)
    IN  IF AllDigits(whole) /\ AllDigits(frac) /\ Len(whole) + Len(frac) > 0
        THEN <<IF signed /\ Head(t) = "-" THEN -n ELSE n>>
        ELSE <<>>

\* safe_int of a string: 0 when the conversion raises
safe_int(value) ==
    LET n == IntOfFloatString(RemoveCommas(value))
    IN  IF n = <<>> THEN 0 ELSE n[1]

\* the parts of s.split(sep) from position i on, the current part starting at
\* position start
RECURSIVE SplitFrom(_, _, _, _)
SplitFrom(s, sep, start, i) ==
    IF i + Len(sep) - 1 > Len(s) THEN <<SubSeq(s, start, Len(s))>>
    ELSE IF SubSeq(s, i, i + Len(sep) - 1) = sep
         THEN <<SubSeq(s, start, i - 1)>>
                 \o SplitFrom(s, sep, i + Len(sep), i + Len(sep))
         ELSE SplitFrom(s, sep, start, i + 1)

\* s.split(sep)
Split(s, sep) == SplitFrom(s, sep, 1, 1)

\* min_ts = safe_int(ts_range[0]) if len(ts_range) > 0 else 0
min_ts(ts_range) == IF Len(ts_range) > 0 THEN safe_int(ts_range[1]) ELSE 0

\* max_ts = safe_int(ts_range[1]) if len(ts_range) > 1 else 9999
max_ts(ts_range) == IF Len(ts_range) > 1 THEN safe_int(ts_range[2]) ELSE 9999

\* {"series": ..., "track_stats": ..., "recommended_ts": ...}
SeriesInfo(series, track_stats, recommended_ts) ==
    [series |-> series, track_stats |-> track_stats, recommended_ts |-> recommended_ts]

\* DEFAULT_SERIES_DATA, the Grand Prix (series 0) appended last
DEFAULT_SERIES_DATA ==
    << SeriesInfo(1, "Defending", "0 - 350"),
       SeriesInfo(2, "Tyre Mgmt", "250 - 450"),
       SeriesInfo(3, "Speed", "350 - 600"),
       SeriesInfo(4, "Overtaking", "450 - 700"),
       SeriesInfo(5, "Cornering", "550 - 800"),
       SeriesInfo(6, "Race Start", "650 - 900"),
       SeriesInfo(7, "Power Unit", "750 - 1000"),
       SeriesInfo(8, "Defending", "850 - 1100"),
       SeriesInfo(9, "Speed", "950 - 1200"),
       SeriesInfo(10, "Rotating", "1050 - 1300"),
       SeriesInfo(11, "Rotating", "1250 - 1550"),
       SeriesInfo(12, "Rotating", "1450 - 1799"),
       SeriesInfo(0, "Custom", "1000+") >>

TRACK_STATS_TO_ATTRIBUTES ==
    "Defending" :> "defending" @@ "Tyre Mgmt" :> "tyre_mgmt" @@ "Speed" :> "speed"
        @@ "Overtaking" :> "overtaking" @@ "Cornering" :> "cornering"
        @@ "Race Start" :> "race_start" @@ "Power Unit" :> "power_unit"
        @@ "Custom" :> "custom"

\* what get_rotating_series_attributes returns without a rotating_series.json
DefaultRotatingAttributes ==
    "10" :> "Speed" @@ "11" :> "Cornering" @@ "12" :> "Power Unit"

\* the dictionary of rotating_series.json, or the default one
get_rotating_series_attributes(file) ==
    IF file = NoneVal THEN DefaultRotatingAttributes ELSE file

\* mutant: the override of a Rotating series is ignored
ResolvedTrackStatsOwnLabel(series_info, series_num, rotating_attributes) ==
    series_info.track_stats

\* track_stats, replaced for a "Rotating" series by the override of its number
ResolvedTrackStats(series_info, series_num, rotating_attributes) ==
    IF /\ series_info.track_stats = "Rotating"
       /\ DOMAIN rotating_attributes # {}
       /\ ToString(series_num) \in DOMAIN rotating_attributes
    THEN rotating_attributes[ToString(series_num)]
    ELSE series_info.track_stats

\* mutant: a label outside the table falls back to qualifying
FocusAttributeQualifying(track_stats) ==
    DictGet(TRACK_STATS_TO_ATTRIBUTES, track_stats, "qualifying")

\* TRACK_STATS_TO_ATTRIBUTES.get(track_stats, "speed")
FocusAttribute(track_stats) == DictGet(TRACK_STATS_TO_ATTRIBUTES, track_stats, "speed")

\* the literals 0.1, 0.5, 0.2 and 5.0
PointOne == FloatDiv(1, 10)
PointFive == FloatDiv(1, 2)
PointTwo == FloatDiv(1, 5)
FivePointZero == FloatOfInt(5)

\* mutant: a car stat counts once
CarScoreSingle(score, focus_attribute, car_stats) ==
    IF focus_attribute \in {"speed", "cornering", "power_unit", "qualifying"}
    THEN FloatAdd(score, FloatOfInt(DictGet(car_stats, focus_attribute, 0)))
    ELSE IF focus_attribute = "pit_time"
    THEN FloatAdd(score,
            FloatMulInt(FloatSub(FivePointZero,
                                 DictGet(car_stats, "pit_time", FivePointZero)), 20))
    ELSE score

\* "Score from car stats": the score after the first if / elif
CarScore(score, focus_attribute, car_stats) ==
    IF focus_attribute \in {"speed", "cornering", "power_unit", "qualifying"}
    THEN FloatAdd(score, FloatOfInt(DictGet(car_stats, focus_attribute, 0) * 2))
    ELSE IF focus_attribute = "pit_time"
    THEN FloatAdd(score,
            FloatMulInt(FloatSub(FivePointZero,
                                 DictGet(car_stats, "pit_time", FivePointZero)), 20))
    ELSE score

\* "Score from driver stats" of find_matching_series_for_loadout
MatchingDriverScore(score, focus_attribute, driver_stats) ==
    IF focus_attribute \in {"overtaking", "defending", "qualifying", "race_start", "tyre_mgmt"}
    THEN LET value ==
                IF focus_attribute = "race_start"
                THEN DictGet(driver_stats, "race_start", DictGet(driver_stats, "raceStart", 0))
                ELSE IF focus_attribute = "tyre_mgmt"
                THEN DictGet(driver_stats, "tyre_mgmt", DictGet(driver_stats, "tyreMgmt", 0))
                ELSE DictGet(driver_stats, focus_attribute, 0)
         IN  FloatAdd(score, FloatOfInt(value))
    ELSE score

\* mutant: only the snake_case keys of race_start and tyre_mgmt are read
BestDriverScoreSnakeOnly(score, focus_attribute, driver_stats) ==
    IF focus_attribute \in {"overtaking", "defending", "qualifying", "race_start", "tyre_mgmt"}
    THEN FloatAdd(score, FloatOfInt(DictGet(driver_stats, focus_attribute, 0)))
    ELSE score

\* "Score from driver stats" of find_best_loadouts_for_series
BestDriverScore(score, focus_attribute, driver_stats) ==
    IF focus_attribute \in {"overtaking", "defending", "qualifying"}
    THEN FloatAdd(score, FloatOfInt(DictGet(driver_stats, focus_attribute, 0)))
    ELSE IF focus_attribute = "race_start"
    THEN FloatAdd(score, FloatOfInt(
            DictGet(driver_stats, "race_start", DictGet(driver_stats, "raceStart", 0))))
    ELSE IF focus_attribute = "tyre_mgmt"
    THEN FloatAdd(score, FloatOfInt(
            DictGet(driver_stats, "tyre_mgmt", DictGet(driver_stats, "tyreMgmt", 0))))
    ELSE score

\* mutant: a total value above the range costs nothing
RangeAdjustedUnderOnly(score, total_value, recommended_ts) ==
    LET ts_range == Split(recommended_ts, " - ")
    IN  IF total_value < min_ts(ts_range)
        THEN FloatSub(score, FloatMulInt(PointFive, min_ts(ts_range) - total_value))
        ELSE score

\* mutant: the two penalties are tested independently of each other
RangeAdjustedBothTests(score, total_value, recommended_ts) ==
    LET ts_range == Split(recommended_ts, " - ")
        under == IF total_value < min_ts(ts_range)
                 THEN FloatSub(score, FloatMulInt(PointFive, min_ts(ts_range) - total_value))
                 ELSE score
    IN  IF total_value > max_ts(ts_range)
        THEN FloatSub(under, FloatMulInt(PointTwo, total_value - max_ts(ts_range)))
        ELSE under

\* "Check recommended TS range": the score after the penalty if / elif
RangeAdjusted(score, total_value, recommended_ts) ==
    LET ts_range == Split(recommended_ts, " - ")
    IN  IF total_value < min_ts(ts_range)
        THEN FloatSub(score, FloatMulInt(PointFive, min_ts(ts_range) - total_value))
        ELSE IF total_value > max_ts(ts_range)
        THEN FloatSub(score, FloatMulInt(PointTwo, total_value - max_ts(ts_range)))
        ELSE score

\* the score of one series in the loop of find_matching_series_for_loadout
MatchingScore(series_info, track_stats, loadout) ==
    LET calculations    == DictGet(loadout, "calculations", EmptyDict)
        car_stats       == DictGet(calculations, "car_stats", EmptyDict)
        driver_stats    == DictGet(calculations, "driver_stats", EmptyDict)
        total_value     == DictGet(calculations, "total_value", 0)
        focus_attribute == FocusAttribute(track_stats)
        car             == CarScore(FloatOfInt(0), focus_attribute, car_stats)
        driver          == MatchingDriverScore(car, focus_attribute, driver_stats)
        bonus           == FloatAdd(driver, FloatMulInt(PointOne, total_value))
    IN  RangeAdjusted(bonus, total_value, series_info.recommended_ts)

\* the score of one loadout in the loop of find_best_loadouts_for_series
BestScore(series_info, track_stats, loadout) ==
    LET calculations    == DictGet(loadout, "calculations", EmptyDict)
        car_stats       == DictGet(calculations, "car_stats", EmptyDict)
        driver_stats    == DictGet(calculations, "driver_stats", EmptyDict)
        total_value     == DictGet(calculations, "total_value", 0)
        focus_attribute == FocusAttribute(track_stats)
        car             == CarScore(FloatOfInt(0), focus_attribute, car_stats)
        driver          == BestDriverScore(car, focus_attribute, driver_stats)
        bonus           == FloatAdd(driver, FloatMulInt(PointOne, total_value))
    IN  RangeAdjusted(bonus, total_value, series_info.recommended_ts)

\* mutant: an entry goes in front of the entries of equal score
InsertByScoreBeforeTies(sorted, entry) ==
    LET ahead == { i \in 1 .. Len(sorted) : FloatLt(entry.score, sorted[i].score) }
    IN  SubSeq(sorted, 1, Cardinality(ahead)) \o <<entry>>
            \o SubSeq(sorted, Cardinality(ahead) + 1, Len(sorted))

\* entry placed behind every entry of sorted whose score is not lower: sorted
\* is in descending order, so these entries are a prefix
InsertByScore(sorted, entry) ==
    LET ahead == { i \in 1 .. Len(sorted) : ~FloatLt(sorted[i].score, entry.score) }
    IN  SubSeq(sorted, 1, Cardinality(ahead)) \o <<entry>>
            \o SubSeq(sorted, Cardinality(ahead) + 1, Len(sorted))

\* list.sort(key=lambda x: x["score"], reverse=True): descending, and stable
RECURSIVE SortedByScoreFrom(_, _, _)
SortedByScoreFrom(entries, i, sorted) ==
    IF i > Len(entries) THEN sorted
    ELSE SortedByScoreFrom(entries, i + 1, InsertByScore(sorted, entries[i]))

SortedByScore(entries) == SortedByScoreFrom(entries, 1, <<>>)

\* series_scores after the loop over SERIES_DATA[i ..]
RECURSIVE SeriesScoresFrom(_, _, _, _)
SeriesScoresFrom(series_data, i, loadout, rotating_attributes) ==
    IF i > Len(series_data) THEN <<>>
    ELSE LET series_info == series_data[i]
             series_num  == series_info.series
             track_stats == ResolvedTrackStats(series_info, series_num, rotating_attributes)
             rest        == SeriesScoresFrom(series_data, i + 1, loadout, rotating_attributes)
         IN  IF series_num = 0 THEN rest
             ELSE << [ series      |-> series_num,
                       track_stats |-> track_stats,
                       score       |-> MatchingScore(series_info, track_stats, loadout) ] >>
                     \o rest

\* mutant: the whole sorted list is returned
TopMatchesAll(sorted) == sorted

\* series_scores[:5]
TopMatches(sorted) == SubSeq(sorted, 1, IF Len(sorted) < 5 THEN Len(sorted) ELSE 5)

find_matching_series_for_loadout(series_data, file, loadout) ==
    TopMatches(SortedByScore(
        SeriesScoresFrom(series_data, 1, loadout, get_rotating_series_attributes(file))))

\* loadout_scores after the loop over loadouts[i ..]
RECURSIVE LoadoutScoresFrom(_, _, _, _)
LoadoutScoresFrom(series_info, track_stats, loadout_list, i) ==
    IF i > Len(loadout_list) THEN <<>>
    ELSE << [ loadout |-> loadout_list[i],
              score   |-> BestScore(series_info, track_stats, loadout_list[i]) ] >>
            \o LoadoutScoresFrom(series_info, track_stats, loadout_list, i + 1)

\* next((s for s in SERIES_DATA if s["series"] == series_number), None)
FirstSeries(series_data, series_number) ==
    LET found == { i \in 1 .. Len(series_data) : series_data[i].series = series_number }
    IN  IF found = {} THEN NoneVal
        ELSE series_data[CHOOSE i \in found : \A j \in found : i <= j]

find_best_loadouts_for_series(series_data, series_number, loadout_list, rotating_attributes) ==
    LET series_info == FirstSeries(series_data, series_number)
    IN  IF series_info = NoneVal THEN <<>>
        ELSE SortedByScore(LoadoutScoresFrom(series_info,
                ResolvedTrackStats(series_info, series_number, rotating_attributes),
                loadout_list, 1))

\* ---- the catalogs, rotating files and loadouts explored

\* the longest catalog drawn from SeriesPool, and the longest loadout list
MaxCatalog == 6
MaxLoadouts == 2

\* the default catalog followed by entries with a label outside the lookup
\* table and with bounds that safe_int cannot parse
SeriesPool ==
    DEFAULT_SERIES_DATA
        \o << SeriesInfo(13, "Qualifying", "350 - abc"),
              SeriesInfo(14, "Pit Time", "abc - 600"),
              SeriesInfo(15, "Speed", "1,000+") >>

\* SERIES_DATA as get_series_data loads it: the default catalog, or a run of
\* at most MaxCatalog pool entries read from series_data.json
Catalogs ==
    {DEFAULT_SERIES_DATA}
        \cup { SubSeq(SeriesPool, w[1], w[1] + w[2] - 1) :
                 w \in { v \in (1 .. Len(SeriesPool)) \X (0 .. MaxCatalog) :
                            v[1] + v[2] - 1 <= Len(SeriesPool) } }

\* rotating_series.json: absent, empty, or with overrides for series 10 and 11
RotatingFiles ==
    { NoneVal, EmptyDict, "10" :> "Defending" @@ "11" :> "Qualifying" }

CarStats ==
    [ speed |-> 40, cornering |-> 30, power_unit |-> 20, qualifying |-> 10,
      pit_time |-> FloatDiv(77, 100) ]

\* driver stats under the snake_case and under the camelCase keys
DriverStatsSnake ==
    [ overtaking |-> 80, defending |-> 60, qualifying |-> 25,
      race_start |-> 50, tyre_mgmt |-> 45 ]
DriverStatsCamel ==
    [ overtaking |-> 80, defending |-> 60, qualifying |-> 25,
      raceStart |-> 50, tyreMgmt |-> 45 ]

TotalValues == {100, 350, 500, 800}

Loadout(name, driver_stats, total_value) ==
    [ name |-> name,
      calculations |-> [ car_stats    |-> CarStats,
                         driver_stats |-> driver_stats,
                         total_value  |-> total_value ] ]

\* loadouts with calculations, and one saved without any
LoadoutInputs ==
    { Loadout("snake", DriverStatsSnake, tv) : tv \in TotalValues }
        \cup { Loadout("camel", DriverStatsCamel, 500), [name |-> "bare"] }

LoadoutLists ==
    UNION { [1 .. n -> LoadoutInputs] : n \in 1 .. MaxLoadouts }

\* a series number absent from every catalog
AbsentSeries == 99

InitSeries ==
    /\ SERIES_DATA \in Catalogs
    /\ rotating_file \in RotatingFiles
    /\ loadouts \in LoadoutLists
    /\ series_call = NoneVal
    /\ series_result = NoneVal
    /\ UpgradeIdle
    /\ StatsIdle
    /\ LaterIdle

\* find_matching_series_for_loadout(loadout) for a saved loadout
FindMatchingSeriesForLoadout ==
    /\ series_call = NoneVal
    /\ \E i \in 1 .. Len(loadouts) :
          /\ series_call' = [ op |-> "find_matching_series_for_loadout",
                              loadout |-> loadouts[i] ]
          /\ series_result' =
                find_matching_series_for_loadout(SERIES_DATA, rotating_file, loadouts[i])
    /\ UNCHANGED <<SERIES_DATA, rotating_file, loadouts, upgradeVars, statsVars, gpVars, aggVars, importVars, deleteVars, stdVars>>

\* find_best_loadouts_for_series(series_number, loadouts, rotating_attributes)
\* as manage_series_loadouts calls it
FindBestLoadoutsForSeries ==
    /\ series_call = NoneVal
    /\ \E series_number \in
            { SERIES_DATA[i].series : i \in 1 .. Len(SERIES_DATA) } \cup {AbsentSeries} :
          /\ series_call' = [ op |-> "find_best_loadouts_for_series",
                              series_number |-> series_number ]
          /\ series_result' =
                find_best_loadouts_for_series(SERIES_DATA, series_number, loadouts,
                    get_rotating_series_attributes(rotating_file))
    /\ UNCHANGED <<SERIES_DATA, rotating_file, loadouts, upgradeVars, statsVars, gpVars, aggVars, importVars, deleteVars, stdVars>>

NextSeries ==
    \/ FindMatchingSeriesForLoadout
    \/ FindBestLoadoutsForSeries

SpecSeries == InitSeries /\ [][NextSeries]_vars

(***************************************************************************)
(* Claims about the upgrade-progress calculator                            *)
(***************************************************************************)

Returned == upc = "returned"

\* the costs of item's rarity, and their sum over the levels in S
CostsOf(it) == get_cards_per_level(it.rarity)
CostOfLevels(it, S) == SumOver(CostsOf(it), S \cap DOMAIN CostsOf(it))

\* C1: a Common item at level 8 with cardsOwned = 784 gets highestLevel 9 and
\* totalCards 1568 (the expectation of test_highest_level.py, "Exactly Level 9").
C1_ExactlyLevel9 ==
    (Returned /\ item.rarity = "Common" /\ item.level = 8 /\ cards_owned = 784)
        => (item.highestLevel = 9 /\ item.upgradeInfo.totalCards = 1568)

\* the spreadsheet threshold formula: 0 for level 0, otherwise the largest
\* L <= 11 whose cumulative cost for levels 2..L is at most totalCards
ThresholdLevel(it, owned) ==
    IF it.level = 0 THEN 0
    ELSE LET total == owned + CostOfLevels(it, 2 .. it.level)
             reach == { L \in 1 .. (LevelCap - 1) : CostOfLevels(it, 2 .. L) <= total }
         IN  CHOOSE L \in reach : \A M \in reach : M <= L

\* C2: the highestLevel of the greedy walk equals the threshold formula, and
\* level <= highestLevel <= 11 whenever level >= 1.
C2_WalkEqualsThreshold ==
    Returned =>
        /\ item.highestLevel = ThresholdLevel(item, cards_owned)
        /\ item.level >= 1 =>
              (item.level <= item.highestLevel /\ item.highestLevel <= LevelCap - 1)

\* a walk that pays for some levels, keeps a rest and stops below level 11
C2_Witness ==
    /\ Returned
    /\ item.rarity \in Rarities
    /\ item.level >= 1
    /\ item.highestLevel > item.level + 1
    /\ item.highestLevel < LevelCap - 1
    /\ cards_owned > CostOfLevels(item, (item.level + 1) .. item.highestLevel)

\* C3: totalCards is cardsOwned plus the costs of levels 2..level (cardsOwned
\* alone at level 0 or 1).
C3_TotalConservation ==
    Returned =>
        /\ item.upgradeInfo.totalCards
              = cards_owned + CostOfLevels(item, 2 .. item.level)
        /\ item.level \in {0, 1} => item.upgradeInfo.totalCards = cards_owned

C3_Witness ==
    /\ Returned
    /\ item.rarity = "Epic"
    /\ item.level = 6
    /\ cards_owned = 7
    /\ item.upgradeInfo.totalCards = 45

\* C4: a Rare item at level 7 with 677 cards gets highestLevel 8 and totalCards
\* 1061; an Epic item at level 6 with 7 cards gets highestLevel 6 and
\* totalCards 191 (the expectations of test_highest_level.py).
C4_TestExpectations ==
    /\ (Returned /\ item.rarity = "Rare" /\ item.level = 7 /\ cards_owned = 677)
          => (item.highestLevel = 8 /\ item.upgradeInfo.totalCards = 1061)
    /\ (Returned /\ item.rarity = "Epic" /\ item.level = 6 /\ cards_owned = 7)
          => (item.highestLevel = 6 /\ item.upgradeInfo.totalCards = 191)

\* C5: for a rarity outside Common/Rare/Epic/Legendary the calculation signals
\* a failure: it never returns an item computed from the all-zero cost table.
C5_InvalidRaritySignalled ==
    Returned => item.rarity \in Rarities

\* C6: cardsNeeded is the cost of the levels above level (up to 11), maxCards
\* the cost of levels 2..11, neither depends on cardsOwned, and
\* cardsNeeded + (totalCards - cardsOwned) = maxCards.
C6_NeededAndMax ==
    Returned =>
        /\ item.upgradeInfo.cardsNeeded
              = CostOfLevels(item, (item.level + 1) .. (LevelCap - 1))
        /\ item.upgradeInfo.maxCards = CostOfLevels(item, 2 .. (LevelCap - 1))
        /\ item.upgradeInfo.cardsNeeded
              + (item.upgradeInfo.totalCards - item.upgradeInfo.cardsOwned)
              = item.upgradeInfo.maxCards

C6_Witness ==
    /\ Returned
    /\ item.rarity = "Common"
    /\ item.level = 8
    /\ cards_owned = 1009
    /\ item.upgradeInfo.cardsNeeded = 6800
    /\ item.upgradeInfo.maxCards = 7584

(***************************************************************************)
(* Claims about the stat interpolator                                      *)
(***************************************************************************)

\* the key the last call looked up, whether the file holds it, and its table
CallKey == IF kind = "component" THEN call.name ELSE DriverKey(call.name, call.rarity)
Found == call # NoneVal /\ raw_data # NoneVal /\ CallKey \in DOMAIN raw_data
Table == raw_data[CallKey].levels
Sampled == DOMAIN Table
Below == { l \in Sampled : l < call.level }
Above == { l \in Sampled : l > call.level }
MaxOf(S) == CHOOSE x \in S : \A y \in S : y <= x
MinOf(S) == CHOOSE x \in S : \A y \in S : x <= y

ComponentStatKeys == {"speed", "cornering", "power_unit", "qualifying", "pit_time"}
DriverStatKeys == {"overtaking", "defending", "qualifying", "race_start", "tyre_mgmt"}
StatKeys == IF kind = "component" THEN ComponentStatKeys ELSE DriverStatKeys

\* x <= y on the stat values of the file in play
StatLe(x, y) == IF kind = "component" THEN RatLe(x, y) ELSE x <= y

\* the call took the interpolation branch with a sample on either side
Bracketed ==
    /\ Found
    /\ call.interpolate
    /\ call.level \notin Sampled
    /\ Below # {}
    /\ Above # {}

\* C7: with no exact entry and samples below and above, get_component_stats
\* takes lower = the greatest sampled level below, upper = the least above, and
\* every stat s satisfies (upper - lower) * (s - lowerStat)
\* = (requested - lower) * (upperStat - lowerStat).
C7_LinearBetweenNearest ==
    (Bracketed /\ kind = "component") =>
        LET lower == MaxOf(Below)
            upper == MinOf(Above)
        IN  /\ result # NoneVal
            /\ \A k \in ComponentStatKeys :
                  RatMul(RatInt(upper - lower), RatSub(result[k], Table[lower][k]))
                    = RatMul(RatInt(call.level - lower),
                             RatSub(Table[upper][k], Table[lower][k]))

\* speed 10 at level 5 and speed 20 at level 9 give speed 15 at level 7, with
\* a further sample below level 5
C7_Witness ==
    /\ Bracketed
    /\ kind = "component"
    /\ Sampled = {2, 5, 9}
    /\ Table[5].speed = RatInt(10)
    /\ Table[9].speed = RatInt(20)
    /\ call.level = 7
    /\ result.speed = RatInt(15)

\* C8 as stated: for any sampled levels a < b with stat values sa <= sb, the
\* value interpolated at a level strictly between a and b lies in [sa, sb],
\* whether or not a and b are adjacent samples.
C8_BetweenAnyPair ==
    Bracketed =>
        \A a \in Below, b \in Above, k \in StatKeys :
            StatLe(Table[a][k], Table[b][k]) =>
                /\ StatLe(Table[a][k], result[k])
                /\ StatLe(result[k], Table[b][k])

\* C8 amended: the same, provided every sampled level strictly between a and b
\* has its stat value within [sa, sb] (always so when a and b are adjacent).
C8_BetweenEnclosingPair ==
    (Found /\ result # NoneVal) =>
        \A a \in Below, b \in Above, k \in StatKeys :
            ( /\ StatLe(Table[a][k], Table[b][k])
              /\ \A m \in Sampled :
                    (a < m /\ m < b) =>
                        /\ StatLe(Table[a][k], Table[m][k])
                        /\ StatLe(Table[m][k], Table[b][k]) )
            => /\ StatLe(Table[a][k], result[k])
               /\ StatLe(result[k], Table[b][k])

\* a driver's overtaking interpolated strictly inside [sa, sb], a and b not
\* adjacent
C8_Witness ==
    /\ Bracketed
    /\ kind = "driver"
    /\ Sampled = {1, 5, 9}
    /\ call.level = 3
    /\ Table[1].overtaking = 10
    /\ Table[5].overtaking = 13
    /\ Table[9].overtaking = 13
    /\ result.overtaking = 12

\* C9: a level below the lowest sample returns the lowest sample's bundle, a
\* level above the highest returns the highest sample's bundle, verbatim.
C9_BoundaryClamping ==
    (Found /\ call.interpolate /\ Sampled # {}) =>
        /\ call.level < MinOf(Sampled) => result = Table[MinOf(Sampled)]
        /\ call.level > MaxOf(Sampled) => result = Table[MaxOf(Sampled)]

\* level 12 asked of samples at 2, 5 and 9: the bundle of level 9, its level
\* field included
C9_Witness ==
    /\ Found
    /\ call.interpolate
    /\ Sampled = {2, 5, 9}
    /\ call.level = LevelCap
    /\ result = Table[9]
    /\ result.level = 9

\* C10: a level present in the table returns exactly the stored bundle,
\* whatever the interpolate flag and the other samples.
C10_ExactLevel ==
    (Found /\ call.level \in Sampled) => result = Table[call.level]

\* the middle one of three samples, asked with interpolate = False
C10_Witness ==
    /\ Found
    /\ kind = "component"
    /\ ~call.interpolate
    /\ Sampled = {2, 5, 9}
    /\ call.level = 5
    /\ result = Table[5]
    /\ Table[5] # Table[2]

\* C12: the getters return None when the item is absent from the raw data,
\* when its level table is empty, or when the level is not sampled and
\* interpolate is False; every call ends by returning (a bundle or None).
C12_NotFoundIsNone ==
    call # NoneVal =>
        /\ ~Found => result = NoneVal
        /\ (Found /\ Sampled = {}) => result = NoneVal
        /\ (Found /\ call.level \notin Sampled /\ ~call.interpolate)
              => result = NoneVal
        /\ (result # NoneVal) => (Found /\ result.level \in Sampled \cup {call.level})

\* a driver whose rows all had a blank Level: an empty table, asked with
\* interpolate = True
C12_Witness ==
    /\ Found
    /\ kind = "driver"
    /\ Sampled = {}
    /\ call.interpolate
    /\ result = NoneVal

\* the sum of the five stats of a component bundle
ComponentSum(b) ==
    RatAdd(b.speed, RatAdd(b.cornering,
        RatAdd(b.power_unit, RatAdd(b.qualifying, b.pit_time))))

\* C13: every component bundle, stored in a raw level table or returned by
\* get_component_stats (interpolated or not), has total_value = speed +
\* cornering + power_unit + qualifying + pit_time of that bundle.
C13_ComponentTotalIncludesPitTime ==
    kind = "component" =>
        /\ raw_data # NoneVal =>
              \A name \in DOMAIN raw_data :
                 \A l \in DOMAIN raw_data[name].levels :
                    raw_data[name].levels[l].total_value
                        = ComponentSum(raw_data[name].levels[l])
        /\ (call # NoneVal /\ result # NoneVal) =>
              result.total_value = ComponentSum(result)

\* an interpolated bundle between a row of total 34.77 and one of total 45.60
C13_Witness ==
    /\ Bracketed
    /\ kind = "component"
    /\ Sampled = {5, 9}
    /\ call.level = 6
    /\ Table[5].total_value = Rat(3477, 100)
    /\ Table[9].total_value = Rat(4560, 100)
    /\ result.pit_time = Rat(291, 400)
    /\ result.total_value = Rat(14991, 400)

\* C11: every stat of an interpolated driver bundle is the exact linear
\* interpolation between the nearest samples rounded to the nearest integer,
\* a tie to the even one, and total_value is the sum of the five rounded stats.
C11_RoundedHalfEven ==
    (Bracketed /\ kind = "driver") =>
        LET lower == MaxOf(Below)
            upper == MinOf(Above)
        IN  /\ result # NoneVal
            /\ \A k \in DriverStatKeys :
                  result[k] = PyRound(Lerp(RatInt(Table[lower][k]),
                                           Factor(call.level, lower, upper),
                                           RatInt(Table[upper][k])))
            /\ result.total_value
                 = result.overtaking + result.defending + result.qualifying
                     + result.race_start + result.tyre_mgmt

(***************************************************************************)
(* Claims about the series matcher                                         *)
(***************************************************************************)

MatchingCall ==
    series_call # NoneVal /\ series_call.op = "find_matching_series_for_loadout"
BestCall ==
    series_call # NoneVal /\ series_call.op = "find_best_loadouts_for_series"

\* the overrides both functions work with
Overrides == get_rotating_series_attributes(rotating_file)

\* the catalog entry of a series number (the catalogs explored hold no number twice)
InfoOf(n) == SERIES_DATA[CHOOSE i \in 1 .. Len(SERIES_DATA) : SERIES_DATA[i].series = n]

\* the catalog positions that find_matching_series_for_loadout ranks
Ranked == { i \in 1 .. Len(SERIES_DATA) : SERIES_DATA[i].series # 0 }

\* the scored triples <<series_info, resolved label, loadout, score>> of the
\* last call: one per returned entry
Scored ==
    IF MatchingCall
    THEN { << InfoOf(series_result[k].series), series_result[k].track_stats,
              series_call.loadout, series_result[k].score >> :
             k \in 1 .. Len(series_result) }
    ELSE IF BestCall
    THEN { << InfoOf(series_call.series_number),
              ResolvedTrackStats(InfoOf(series_call.series_number),
                                 series_call.series_number, Overrides),
              series_result[k].loadout, series_result[k].score >> :
             k \in 1 .. Len(series_result) }
    ELSE {}

HasCalculations(l) == "calculations" \in DOMAIN l
TotalValueOf(l) == DictGet(DictGet(l, "calculations", EmptyDict), "total_value", 0)
MinOfRange(info) == min_ts(Split(info.recommended_ts, " - "))
MaxOfRange(info) == max_ts(Split(info.recommended_ts, " - "))
InRange(info, l) ==
    MinOfRange(info) <= TotalValueOf(l) /\ TotalValueOf(l) <= MaxOfRange(info)

\* totalValue * 0.1
Bonus(l) == FloatMulInt(PointOne, TotalValueOf(l))

\* C14: with the focus f of the resolved label a car stat (speed, cornering,
\* power_unit) and totalValue inside the recommended range, the score is
\* carStats[f] * 2 + totalValue * 0.1; with f a driver stat (overtaking,
\* defending, race_start, tyre_mgmt) it is driverStats[f] + totalValue * 0.1;
\* series 3 (Speed, "350 - 600"), totalValue 500, speed 40 scores 130.
C14_InRangeScore ==
    \A t \in Scored :
        LET info  == t[1]
            label == t[2]
            l     == t[3]
            score == t[4]
        IN  (HasCalculations(l) /\ InRange(info, l)
                /\ label \in DOMAIN TRACK_STATS_TO_ATTRIBUTES) =>
            LET f  == TRACK_STATS_TO_ATTRIBUTES[label]
                cs == l.calculations.car_stats
                ds == l.calculations.driver_stats
            IN  /\ f \in {"speed", "cornering", "power_unit"} =>
                      score = FloatAdd(FloatOfInt(cs[f] * 2), Bonus(l))
                /\ (f \in {"overtaking", "defending", "race_start", "tyre_mgmt"}
                        /\ f \in DOMAIN ds) =>
                      score = FloatAdd(FloatOfInt(ds[f]), Bonus(l))
                /\ (info = SeriesInfo(3, "Speed", "350 - 600")
                        /\ TotalValueOf(l) = 500 /\ cs.speed = 40) =>
                      score = FloatOfInt(130)

\* the loadout with totalValue 500 and speed 40 matched against a catalog
\* holding series 3 and series 4 (Overtaking, "450 - 700", overtaking 80)
C14_Witness ==
    /\ MatchingCall
    /\ TotalValueOf(series_call.loadout) = 500
    /\ series_call.loadout.calculations.car_stats.speed = 40
    /\ \E k \in 1 .. Len(series_result) :
          /\ series_result[k].series = 3
          /\ InfoOf(3) = SeriesInfo(3, "Speed", "350 - 600")
          /\ series_result[k].score = FloatOfInt(130)
    /\ \E k \in 1 .. Len(series_result) :
          /\ series_result[k].series = 4
          /\ series_result[k].track_stats = "Overtaking"
          /\ series_result[k].score = FloatOfInt(130)

\* the score before the range adjustment: the car part, the driver part of
\* the function called, and the bonus
BaseScore(label, l) ==
    LET calculations == DictGet(l, "calculations", EmptyDict)
        car == CarScore(FloatOfInt(0), FocusAttribute(label),
                        DictGet(calculations, "car_stats", EmptyDict))
        driver == IF MatchingCall
                  THEN MatchingDriverScore(car, FocusAttribute(label),
                           DictGet(calculations, "driver_stats", EmptyDict))
                  ELSE BestDriverScore(car, FocusAttribute(label),
                           DictGet(calculations, "driver_stats", EmptyDict))
    IN  FloatAdd(driver, Bonus(l))

\* (min - totalValue) * 0.5 and (totalValue - max) * 0.2
UnderPenalty(info, l) == FloatMulInt(PointFive, MinOfRange(info) - TotalValueOf(l))
OverPenalty(info, l) == FloatMulInt(PointTwo, TotalValueOf(l) - MaxOfRange(info))

\* C15: the range adjustment is one of three cases: totalValue < min subtracts
\* (min - totalValue) * 0.5, totalValue > max subtracts (totalValue - max) * 0.2,
\* min <= totalValue <= max subtracts nothing; the two penalties are never both
\* subtracted, not even for a range whose bounds are inverted.
C15_OneRangeCase ==
    \A t \in Scored :
        LET info  == t[1]
            l     == t[3]
            score == t[4]
            base  == BaseScore(t[2], l)
            tv    == TotalValueOf(l)
            under == FloatSub(base, UnderPenalty(info, l))
            over  == FloatSub(base, OverPenalty(info, l))
        IN  /\ MinOfRange(info) <= MaxOfRange(info) =>
                /\ tv < MinOfRange(info) => score = under
                /\ tv > MaxOfRange(info) => score = over
                /\ InRange(info, l) => score = base
            /\ (tv < MinOfRange(info) /\ tv > MaxOfRange(info)) =>
                score \in {under, over}

\* totalValue 500 against series 2 .. 5: above "250 - 450", inside "350 - 600"
\* and "450 - 700", below "550 - 800"
C15_Witness ==
    /\ MatchingCall
    /\ TotalValueOf(series_call.loadout) = 500
    /\ HasCalculations(series_call.loadout)
    /\ SERIES_DATA = SubSeq(DEFAULT_SERIES_DATA, 2, 5)
    /\ Len(series_result) = 4
    /\ \A k \in 1 .. 4 :
          /\ series_result[k].series = 2 =>
                series_result[k].score
                    = FloatSub(FloatOfInt(95), FloatMulInt(PointTwo, 50))
          /\ series_result[k].series = 3 => series_result[k].score = FloatOfInt(130)
          /\ series_result[k].series = 5 =>
                series_result[k].score
                    = FloatSub(FloatOfInt(110), FloatMulInt(PointFive, 50))

\* float() accepts the string
Parses(value) == IntOfFloatString(RemoveCommas(value)) # <<>>

\* the bounds as documented: 0 for a missing or unparseable lower bound, 9999
\* for a missing or unparseable upper bound
DocumentedMin(info) ==
    LET ts_range == Split(info.recommended_ts, " - ")
    IN  IF Parses(ts_range[1]) THEN safe_int(ts_range[1]) ELSE 0
DocumentedMax(info) ==
    LET ts_range == Split(info.recommended_ts, " - ")
    IN  IF Len(ts_range) > 1 /\ Parses(ts_range[2]) THEN safe_int(ts_range[2]) ELSE 9999

\* C16: a recommended_ts with a missing or unparseable bound ("1000+",
\* "350 - abc") is scored with min = 0 for a bad lower bound and max = 9999 for
\* a bad upper bound.
C16_DefaultBounds ==
    \A t \in Scored :
        LET info == t[1]
            l    == t[3]
            base == BaseScore(t[2], l)
            tv   == TotalValueOf(l)
        IN  t[4] = IF tv < DocumentedMin(info)
                   THEN FloatSub(base, FloatMulInt(PointFive, DocumentedMin(info) - tv))
                   ELSE IF tv > DocumentedMax(info)
                   THEN FloatSub(base, FloatMulInt(PointTwo, tv - DocumentedMax(info)))
                   ELSE base

\* C17 as stated: find_matching_series_for_loadout returns one entry for every
\* catalog series whose number is not 0, and does not truncate the list.
C17_FullRanking ==
    MatchingCall =>
        /\ Len(series_result) = Cardinality(Ranked)
        /\ \A i \in Ranked :
              \E k \in 1 .. Len(series_result) :
                 series_result[k].series = SERIES_DATA[i].series

\* C17 amended: find_matching_series_for_loadout returns min(5, n) entries for
\* the n catalog series whose number is not 0: entries of distinct series of the
\* catalog, none of them series 0, and no series left out scores higher than
\* a returned one.
C17_TopFive ==
    MatchingCall =>
        LET returned == { series_result[k].series : k \in 1 .. Len(series_result) }
        IN  /\ Len(series_result)
                 = (IF Cardinality(Ranked) < 5 THEN Cardinality(Ranked) ELSE 5)
            /\ Cardinality(returned) = Len(series_result)
            /\ returned \subseteq { SERIES_DATA[i].series : i \in Ranked }
            /\ \A i \in Ranked :
                  SERIES_DATA[i].series \notin returned =>
                     \A k \in 1 .. Len(series_result) :
                        ~FloatLt(series_result[k].score,
                                 MatchingScore(SERIES_DATA[i],
                                     ResolvedTrackStats(SERIES_DATA[i],
                                         SERIES_DATA[i].series, Overrides),
                                     series_call.loadout))

\* the default catalog, twelve ranked series: five entries come back
C17_Witness ==
    /\ MatchingCall
    /\ SERIES_DATA = DEFAULT_SERIES_DATA
    /\ Cardinality(Ranked) = 12
    /\ Len(series_result) = 5

\* the position of a series in the catalog, of a loadout in the saved list
PositionOfSeries(n) == CHOOSE i \in 1 .. Len(SERIES_DATA) : SERIES_DATA[i].series = n

\* C18: the returned list is in descending order of score, and entries of
\* equal score keep the relative order of the catalog (of the loadout list
\* for find_best_loadouts_for_series).
C18_DescendingStable ==
    (MatchingCall \/ BestCall) =>
        \A i, j \in 1 .. Len(series_result) :
            i < j =>
               /\ ~FloatLt(series_result[i].score, series_result[j].score)
               /\ (series_result[i].score = series_result[j].score /\ MatchingCall) =>
                     PositionOfSeries(series_result[i].series)
                        < PositionOfSeries(series_result[j].series)
               /\ (series_result[i].score = series_result[j].score /\ BestCall) =>
                     \E p, q \in 1 .. Len(loadouts) :
                        /\ p < q
                        /\ loadouts[p] = series_result[i].loadout
                        /\ loadouts[q] = series_result[j].loadout

\* series 3 (speed 40 doubled) and series 4 (overtaking 80) tie at 130 and
\* come back in catalog order, ahead of a lower score
C18_Witness ==
    /\ MatchingCall
    /\ Len(series_result) >= 3
    /\ series_result[1].series = 3
    /\ series_result[2].series = 4
    /\ series_result[1].score = FloatOfInt(130)
    /\ series_result[2].score = FloatOfInt(130)
    /\ FloatLt(series_result[3].score, series_result[2].score)

\* the score find_best_loadouts_for_series returned for the loadout at
\* position p of the list
ScoreOf(p) ==
    series_result[CHOOSE k \in 1 .. Len(series_result) :
                     series_result[k].loadout = loadouts[p]].score

\* loadouts p and q have the same stats, hence the same focus value
SameStats(p, q) ==
    /\ HasCalculations(loadouts[p])
    /\ HasCalculations(loadouts[q])
    /\ loadouts[p].calculations.car_stats = loadouts[q].calculations.car_stats
    /\ loadouts[p].calculations.driver_stats = loadouts[q].calculations.driver_stats

\* C19 as stated, "far outside" read as at least 200 beyond a bound: with the
\* same focus value, A inside the range and B far below min or far above max,
\* A scores strictly higher than B.
C19_InRangeBeatsFarOutside ==
    (BestCall /\ series_result # <<>>) =>
        LET info == InfoOf(series_call.series_number)
        IN  \A a, b \in 1 .. Len(loadouts) :
               (/\ SameStats(a, b)
                /\ InRange(info, loadouts[a])
                /\ \/ TotalValueOf(loadouts[b]) <= MinOfRange(info) - 200
                   \/ TotalValueOf(loadouts[b]) >= MaxOfRange(info) + 200)
               => FloatLt(ScoreOf(b), ScoreOf(a))

\* C19 amended: with the same focus value and A inside the range, A scores
\* strictly higher than B when B is below min, or above max by more than
\* max - A.totalValue.
C19_InRangeBeatsFarther ==
    (BestCall /\ series_result # <<>>) =>
        LET info == InfoOf(series_call.series_number)
        IN  \A a, b \in 1 .. Len(loadouts) :
               (/\ SameStats(a, b)
                /\ InRange(info, loadouts[a])
                /\ \/ TotalValueOf(loadouts[b]) < MinOfRange(info)
                   \/ TotalValueOf(loadouts[b]) - MaxOfRange(info)
                        > MaxOfRange(info) - TotalValueOf(loadouts[a]))
               => FloatLt(ScoreOf(b), ScoreOf(a))

\* series 1 ("0 - 350"): totalValue 100 inside, totalValue 800 above by 450
C19_Witness ==
    /\ BestCall
    /\ series_call.series_number = 1
    /\ InfoOf(1) = SeriesInfo(1, "Defending", "0 - 350")
    /\ Len(loadouts) = 2
    /\ SameStats(1, 2)
    /\ TotalValueOf(loadouts[1]) = 800
    /\ TotalValueOf(loadouts[2]) = 100
    /\ series_result[1].loadout = loadouts[2]
    /\ series_result[1].score = FloatOfInt(70)
    /\ series_result[2].score = FloatOfInt(50)

\* the label a series is scored under: the override of its number for a
\* "Rotating" series that has one, its own label otherwise
ExpectedLabel(info) ==
    IF info.track_stats = "Rotating" /\ ToString(info.series) \in DOMAIN Overrides
    THEN Overrides[ToString(info.series)]
    ELSE info.track_stats

\* C20: a "Rotating" series with an override for its number is scored, and
\* reported, under the override's label mapped through the lookup table, every
\* other series under its own label.
C20_RotatingOverride ==
    /\ MatchingCall =>
          \A k \in 1 .. Len(series_result) :
             LET info == InfoOf(series_result[k].series)
             IN  /\ series_result[k].track_stats = ExpectedLabel(info)
                 /\ series_result[k].score
                      = MatchingScore(info, ExpectedLabel(info), series_call.loadout)
    /\ BestCall =>
          \A k \in 1 .. Len(series_result) :
             LET info == InfoOf(series_call.series_number)
             IN  series_result[k].score
                    = BestScore(info, ExpectedLabel(info), series_result[k].loadout)

\* series 10 is "Rotating" and rotating_series.json says "Defending": the entry
\* reports Defending and scores defending 60 + 50 - (1050 - 500) * 0.5
C20_Witness ==
    /\ MatchingCall
    /\ rotating_file # NoneVal
    /\ DictGet(rotating_file, "10", "") = "Defending"
    /\ TotalValueOf(series_call.loadout) = 500
    /\ HasCalculations(series_call.loadout)
    /\ \E k \in 1 .. Len(series_result) :
          /\ series_result[k].series = 10
          /\ InfoOf(10).track_stats = "Rotating"
          /\ series_result[k].track_stats = "Defending"
          /\ series_result[k].score = FloatOfInt(-165)

\* C28: for every series returned by find_matching_series_for_loadout(loadout)
\* (none of them series 0), find_best_loadouts_for_series(series, [loadout],
\* overrides) under the same catalog and overrides gives that loadout the same
\* score, whichever spelling the race_start / tyre_mgmt keys have.
C28_ScoringsAgree ==
    MatchingCall =>
        \A k \in 1 .. Len(series_result) :
            LET best == find_best_loadouts_for_series(SERIES_DATA,
                            series_result[k].series, <<series_call.loadout>>, Overrides)
            IN  /\ Len(best) = 1
                /\ best[1].loadout = series_call.loadout
                /\ best[1].score = series_result[k].score

\* the loadout with raceStart 50 and tyreMgmt 45 against series 6 (Race Start,
\* "650 - 900") and series 2 (Tyre Mgmt, "250 - 450")
C28_Witness ==
    /\ MatchingCall
    /\ HasCalculations(series_call.loadout)
    /\ "raceStart" \in DOMAIN series_call.loadout.calculations.driver_stats
    /\ "race_start" \notin DOMAIN series_call.loadout.calculations.driver_stats
    /\ \E k \in 1 .. Len(series_result) :
          /\ series_result[k].series = 6
          /\ series_result[k].track_stats = "Race Start"
          /\ series_result[k].score = FloatOfInt(25)
    /\ \E k \in 1 .. Len(series_result) :
          /\ series_result[k].series = 2
          /\ series_result[k].track_stats = "Tyre Mgmt"
          /\ series_result[k].score = FloatOfInt(85)

\* the focus attributes of the lookup table
TableAttributes ==
    {"defending", "tyre_mgmt", "speed", "overtaking", "cornering", "race_start",
     "power_unit", "custom"}

\* C29: a resolved label outside the lookup table (a "Rotating" series without
\* an override, "Qualifying", "Pit Time") is scored with focus speed, that is
\* carStats.speed * 2 plus the bonus and the range adjustment; the focus is
\* always an attribute of the table, never qualifying or pit_time.
C29_UnknownLabelIsSpeed ==
    \A t \in Scored :
        LET info  == t[1]
            label == t[2]
            l     == t[3]
            speed == DictGet(DictGet(DictGet(l, "calculations", EmptyDict),
                                     "car_stats", EmptyDict), "speed", 0)
        IN  /\ FocusAttribute(label) \in TableAttributes
            /\ FocusAttribute(label) \notin {"qualifying", "pit_time"}
            /\ label \notin DOMAIN TRACK_STATS_TO_ATTRIBUTES =>
                  /\ FocusAttribute(label) = "speed"
                  /\ t[4] = RangeAdjusted(FloatAdd(FloatOfInt(speed * 2), Bonus(l)),
                                          TotalValueOf(l), info.recommended_ts)

\* rotating_series.json is {}: series 10 ("1050 - 1300") stays "Rotating" and
\* scores speed 40 * 2 + 80 - (1050 - 800) * 0.5; series 13 is "Qualifying"
C29_Witness ==
    /\ MatchingCall
    /\ rotating_file = EmptyDict
    /\ TotalValueOf(series_call.loadout) = 800
    /\ \E k \in 1 .. Len(series_result) :
          /\ series_result[k].series = 10
          /\ series_result[k].track_stats = "Rotating"
          /\ series_result[k].score = FloatOfInt(35)
    /\ \E k \in 1 .. Len(series_result) :
          /\ series_result[k].series = 13
          /\ series_result[k].track_stats = "Qualifying"

(***************************************************************************)
(* Grand Prix eligibility: GP_CATEGORIES, the series lookups and the two   *)
(* checks of a loadout against a category                                  *)
(***************************************************************************)

\* ---- the string conversions the lookups and the message use

LowerLetters == "abcdefghijklmnopqrstuvwxyz"
UpperLetters == "ABCDEFGHIJKLMNOPQRSTUVWXYZ"

\* the position of character c in an alphabet, 0 when it is not in it
LetterIndex(c, alphabet) ==
    IF \E i \in 1 .. Len(alphabet) : CharAt(alphabet, i) = c
    THEN CHOOSE i \in 1 .. Len(alphabet) : CharAt(alphabet, i) = c
    ELSE 0

IsLetter(c) == LetterIndex(c, LowerLetters) > 0 \/ LetterIndex(c, UpperLetters) > 0

LowerChar(c) ==
    IF LetterIndex(c, UpperLetters) > 0
    THEN CharAt(LowerLetters, LetterIndex(c, UpperLetters))
    ELSE c

UpperChar(c) ==
    IF LetterIndex(c, LowerLetters) > 0
    THEN CharAt(UpperLetters, LetterIndex(c, LowerLetters))
    ELSE c

\* str.lower()
RECURSIVE StrLower(_)
StrLower(s) ==
    IF s = "" THEN ""
    ELSE LowerChar(CharAt(s, 1)) \o StrLower(SubSeq(s, 2, Len(s)))

\* str.replace(" ", "_")
RECURSIVE ReplaceSpaces(_)
ReplaceSpaces(s) ==
    IF s = "" THEN ""
    ELSE (IF CharAt(s, 1) = " " THEN "_" ELSE CharAt(s, 1))
            \o ReplaceSpaces(SubSeq(s, 2, Len(s)))

\* str.title(): a letter is upper-cased after a non-letter, lower-cased after
\* a letter
RECURSIVE TitleFrom(_, _)
TitleFrom(s, after_letter) ==
    IF s = "" THEN ""
    ELSE LET c == CharAt(s, 1)
         IN  (IF after_letter THEN LowerChar(c) ELSE UpperChar(c))
                \o TitleFrom(SubSeq(s, 2, Len(s)), IsLetter(c))

StrTitle(s) == TitleFrom(s, FALSE)

\* sep.join(items)
RECURSIVE Join(_, _)
Join(items, sep) ==
    IF items = <<>> THEN ""
    ELSE IF Len(items) = 1 THEN items[1]
    ELSE items[1] \o sep \o Join(Tail(items), sep)

\* ---- the categories and the catalog files

GP_CATEGORIES ==
    [ Challenger |-> [max_series |-> 6],
      Contender  |-> [max_series |-> 9],
      Champion   |-> [max_series |-> 12] ]

\* the keys of COMPONENT_FILES in the order items() yields them
COMPONENT_FILES ==
    << "Brakes", "Gearbox", "Rear Wing", "Front Wing", "Suspension", "Engine" >>

\* `if data:` for what load_json_data returned: None and {} are false
Truthy(data) == data # NoneVal /\ data # EmptyDict

\* the loop `for x in items: if x.get("name") == name: return x.get("series", 0)`,
\* from index i on: << series >> at the first match, << >> when the loop ends
RECURSIVE FirstNamed(_, _, _)
FirstNamed(items, i, name) ==
    IF i > Len(items) THEN <<>>
    ELSE IF "name" \in DOMAIN items[i] /\ items[i].name = name
         THEN << DictGet(items[i], "series", 0) >>
         ELSE FirstNamed(items, i + 1, name)

\* the loop over COMPONENT_FILES.items() of get_component_series, from file f on
RECURSIVE ComponentSeriesFrom(_, _, _)
ComponentSeriesFrom(cat, f, component_name) ==
    IF f > Len(COMPONENT_FILES) THEN 0
    ELSE LET component_type == COMPONENT_FILES[f]
             components_data == cat.component_files[component_type]
             key == ReplaceSpaces(StrLower(component_type))
             hit == IF Truthy(components_data)
                    THEN FirstNamed(DictGet(components_data, key, <<>>), 1,
                                    component_name)
                    ELSE <<>>
         IN  IF hit # <<>> THEN hit[1]
             ELSE ComponentSeriesFrom(cat, f + 1, component_name)

get_component_series(cat, component_name) ==
    ComponentSeriesFrom(cat, 1, component_name)

get_driver_series(cat, driver_name) ==
    LET drivers_data == cat.drivers_file
        hit == IF Truthy(drivers_data)
               THEN FirstNamed(DictGet(drivers_data, "drivers", <<>>), 1, driver_name)
               ELSE <<>>
    IN  IF hit # <<>> THEN hit[1] ELSE 0

\* `if driver.get("name"):` -- the slot names an item
HasName(slot) == "name" \in DOMAIN slot /\ slot.name # ""

\* the drivers loop of is_loadout_valid_for_category from slot i on: FALSE at
\* the first driver above the ceiling
RECURSIVE DriversPass(_, _, _, _)
DriversPass(cat, drivers, i, max_series) ==
    IF i > Len(drivers) THEN TRUE
    ELSE IF HasName(drivers[i])
            /\ get_driver_series(cat, drivers[i].name) > max_series
         THEN FALSE
         ELSE DriversPass(cat, drivers, i + 1, max_series)

\* the components loop, over the (comp_type, comp) items in dictionary order
RECURSIVE ComponentsPass(_, _, _, _)
ComponentsPass(cat, components, i, max_series) ==
    IF i > Len(components) THEN TRUE
    ELSE IF HasName(components[i][2])
            /\ get_component_series(cat, components[i][2].name) > max_series
         THEN FALSE
         ELSE ComponentsPass(cat, components, i + 1, max_series)

\* mutant: only the drivers are checked
is_loadout_valid_drivers_only(cat, loadout, category) ==
    IF category \notin DOMAIN GP_CATEGORIES THEN FALSE
    ELSE DriversPass(cat, DictGet(loadout, "drivers", <<>>), 1,
                     GP_CATEGORIES[category].max_series)

is_loadout_valid_for_category(cat, loadout, category) ==
    IF category \notin DOMAIN GP_CATEGORIES THEN FALSE
    ELSE LET max_series == GP_CATEGORIES[category].max_series
         IN  IF ~DriversPass(cat, DictGet(loadout, "drivers", <<>>), 1, max_series)
             THEN FALSE
             ELSE ComponentsPass(cat, DictGet(loadout, "components", <<>>), 1,
                                 max_series)

\* the invalid_items the drivers loop of get_loadout_validation_message appends
RECURSIVE InvalidDrivers(_, _, _, _)
InvalidDrivers(cat, drivers, i, max_series) ==
    IF i > Len(drivers) THEN <<>>
    ELSE LET rest == InvalidDrivers(cat, drivers, i + 1, max_series)
         IN  IF HasName(drivers[i])
                /\ get_driver_series(cat, drivers[i].name) > max_series
             THEN << "Driver '" \o drivers[i].name \o "' is from Series "
                        \o ToString(get_driver_series(cat, drivers[i].name)) >>
                  \o rest
             ELSE rest

\* the invalid_items its components loop appends
RECURSIVE InvalidComponents(_, _, _, _)
InvalidComponents(cat, components, i, max_series) ==
    IF i > Len(components) THEN <<>>
    ELSE LET rest == InvalidComponents(cat, components, i + 1, max_series)
             comp_type == components[i][1]
             comp == components[i][2]
         IN  IF HasName(comp) /\ get_component_series(cat, comp.name) > max_series
             THEN << StrTitle(comp_type) \o " '" \o comp.name \o "' is from Series "
                        \o ToString(get_component_series(cat, comp.name)) >>
                  \o rest
             ELSE rest

\* the text built from invalid_items
ValidationText(invalid_items, max_series) ==
    IF invalid_items # <<>>
    THEN "Loadout contains items above Series " \o ToString(max_series)
            \o ":\n- " \o Join(invalid_items, "\n- ")
    ELSE "Loadout is valid for this category"

\* mutant: the message stops at the first item above the ceiling
validation_message_first_only(cat, loadout, category) ==
    IF category \notin DOMAIN GP_CATEGORIES THEN "Invalid category: " \o category
    ELSE LET max_series == GP_CATEGORIES[category].max_series
             invalid_items ==
                 InvalidDrivers(cat, DictGet(loadout, "drivers", <<>>), 1, max_series)
                 \o InvalidComponents(cat, DictGet(loadout, "components", <<>>), 1,
                                      max_series)
         IN  ValidationText(IF invalid_items = <<>> THEN <<>>
                            ELSE << invalid_items[1] >>, max_series)

get_loadout_validation_message(cat, loadout, category) ==
    IF category \notin DOMAIN GP_CATEGORIES THEN "Invalid category: " \o category
    ELSE LET max_series == GP_CATEGORIES[category].max_series
             invalid_items ==
                 InvalidDrivers(cat, DictGet(loadout, "drivers", <<>>), 1, max_series)
                 \o InvalidComponents(cat, DictGet(loadout, "components", <<>>), 1,
                                      max_series)
         IN  ValidationText(invalid_items, max_series)

\* ---- inputs of the Grand Prix checks

\* a catalog with every shape the lookups meet: a name listed twice, an entry
\* without "series", a series above every ceiling, a name shared by two
\* component files, a file that failed to load, an empty file
FullCatalog ==
    [ drivers_file |->
        [ drivers |-> << [name |-> "Verstappen", series |-> 7],
                         [name |-> "Norris", series |-> 3],
                         [name |-> "Verstappen", series |-> 2],
                         [name |-> "Rookie"],
                         [name |-> "Legend", series |-> 13] >> ],
      component_files |->
        ( "Brakes" :> ("brakes" :> << [name |-> "Pivot", series |-> 4] >>)
          @@ "Gearbox" :> ("gearbox" :> << [name |-> "Pivot", series |-> 8],
                                           [name |-> "Shift", series |-> 7] >>)
          @@ "Rear Wing" :> NoneVal
          @@ "Front Wing" :> EmptyDict
          @@ "Suspension" :> ("suspension" :> <<>>)
          @@ "Engine" :> ("engine" :> << [name |-> "Turbo", series |-> 10],
                                         [name |-> "Mach", series |-> 13] >>) ) ]

\* no catalog file could be loaded
MissingCatalog ==
    [ drivers_file |-> NoneVal,
      component_files |-> [t \in { COMPONENT_FILES[f] : f \in 1 .. Len(COMPONENT_FILES) }
                              |-> NoneVal] ]

GPCatalogs == {FullCatalog, MissingCatalog}

\* a driver slot: empty, without a name key, or naming a driver ("Ghost" is in
\* no catalog)
DriverSlots ==
    { [name |-> ""], EmptyDict } \cup
    { [name |-> n] : n \in {"Verstappen", "Norris", "Rookie", "Ghost", "Legend"} }

ComponentSlot(n) == [name |-> n]

\* the components dictionary of a loadout, as its items() in order
ComponentDicts ==
    { << <<"brakes", ComponentSlot(b)>>, <<"gearbox", ComponentSlot(g)>>,
         <<"rear_wing", ComponentSlot("")>>, <<"front_wing", ComponentSlot("")>>,
         <<"suspension", ComponentSlot("")>>, <<"engine", ComponentSlot(e)>> >> :
        b \in {"", "Pivot", "Ghost Pad"}, g \in {"", "Shift"},
        e \in {"", "Turbo", "Mach"} }

GPLoadouts ==
    { [title |-> "bare"] } \cup
    { [title |-> "set", drivers |-> <<d1, d2>>, components |-> c] :
        d1 \in DriverSlots, d2 \in DriverSlots, c \in ComponentDicts }

\* the three categories and a name that is none of them
CategoryInputs == DOMAIN GP_CATEGORIES \cup {"Rookie Cup"}

LookupNames == {"Verstappen", "Norris", "Rookie", "Ghost", "Legend",
                "Pivot", "Shift", "Turbo", "Mach", "Ghost Pad"}

InitGrandPrix ==
    /\ catalog \in GPCatalogs
    /\ gp_call = NoneVal
    /\ gp_result = NoneVal
    /\ UpgradeIdle
    /\ StatsIdle
    /\ SeriesIdle
    /\ AggregatorIdle
    /\ ImportIdle
    /\ DeleteIdle
    /\ StandardizeIdle

GetDriverSeries ==
    /\ gp_call = NoneVal
    /\ \E n \in LookupNames :
          /\ gp_call' = [op |-> "get_driver_series", name |-> n]
          /\ gp_result' = get_driver_series(catalog, n)
    /\ UNCHANGED <<catalog, upgradeVars, statsVars, seriesVars, aggVars, importVars, deleteVars, stdVars>>

GetComponentSeries ==
    /\ gp_call = NoneVal
    /\ \E n \in LookupNames :
          /\ gp_call' = [op |-> "get_component_series", name |-> n]
          /\ gp_result' = get_component_series(catalog, n)
    /\ UNCHANGED <<catalog, upgradeVars, statsVars, seriesVars, aggVars, importVars, deleteVars, stdVars>>

IsLoadoutValidForCategory ==
    /\ gp_call = NoneVal
    /\ \E l \in GPLoadouts, c \in CategoryInputs :
          /\ gp_call' = [op |-> "is_loadout_valid_for_category",
                         loadout |-> l, category |-> c]
          /\ gp_result' = is_loadout_valid_for_category(catalog, l, c)
    /\ UNCHANGED <<catalog, upgradeVars, statsVars, seriesVars, aggVars, importVars, deleteVars, stdVars>>

GetLoadoutValidationMessage ==
    /\ gp_call = NoneVal
    /\ \E l \in GPLoadouts, c \in CategoryInputs :
          /\ gp_call' = [op |-> "get_loadout_validation_message",
                         loadout |-> l, category |-> c]
          /\ gp_result' = get_loadout_validation_message(catalog, l, c)
    /\ UNCHANGED <<catalog, upgradeVars, statsVars, seriesVars, aggVars, importVars, deleteVars, stdVars>>

NextGrandPrix ==
    \/ GetDriverSeries
    \/ GetComponentSeries
    \/ IsLoadoutValidForCategory
    \/ GetLoadoutValidationMessage

SpecGrandPrix == InitGrandPrix /\ [][NextGrandPrix]_vars

(***************************************************************************)
(* Claims about Grand Prix eligibility                                     *)
(***************************************************************************)

ValidCall == gp_call # NoneVal /\ gp_call.op = "is_loadout_valid_for_category"
MessageCall == gp_call # NoneVal /\ gp_call.op = "get_loadout_validation_message"
LookupCall ==
    gp_call # NoneVal /\ gp_call.op \in {"get_driver_series", "get_component_series"}

KnownCategories == {"Challenger", "Contender", "Champion"}

\* the driver entries of the catalog, in file order
DriverEntries ==
    IF catalog.drivers_file # NoneVal /\ "drivers" \in DOMAIN catalog.drivers_file
    THEN catalog.drivers_file.drivers
    ELSE <<>>

EntriesOfFile(component_type, key) ==
    LET file == catalog.component_files[component_type]
    IN  IF file # NoneVal /\ key \in DOMAIN file THEN file[key] ELSE <<>>

\* the component entries of the catalog, file after file
ComponentEntries ==
    EntriesOfFile("Brakes", "brakes") \o EntriesOfFile("Gearbox", "gearbox")
        \o EntriesOfFile("Rear Wing", "rear_wing")
        \o EntriesOfFile("Front Wing", "front_wing")
        \o EntriesOfFile("Suspension", "suspension")
        \o EntriesOfFile("Engine", "engine")

Listed(entries, n) == \E i \in 1 .. Len(entries) : entries[i].name = n

\* the first catalog entry named n carries a series above the ceiling
OverCeiling(entries, n, ceiling) ==
    \E i \in 1 .. Len(entries) :
        /\ entries[i].name = n
        /\ \A j \in 1 .. (i - 1) : entries[j].name # n
        /\ "series" \in DOMAIN entries[i]
        /\ entries[i].series > ceiling

NonEmptySlot(slot) == "name" \in DOMAIN slot /\ slot.name # ""

\* the names in the non-empty driver slots of a loadout
NamedDrivers(l) ==
    IF "drivers" \in DOMAIN l
    THEN { l.drivers[i].name : i \in { j \in 1 .. Len(l.drivers) : NonEmptySlot(l.drivers[j]) } }
    ELSE {}

\* the (slot type, name) pairs of its non-empty component slots
NamedComponents(l) ==
    IF "components" \in DOMAIN l
    THEN { << l.components[i][1], l.components[i][2].name >> :
            i \in { j \in 1 .. Len(l.components) : NonEmptySlot(l.components[j][2]) } }
    ELSE {}

\* some non-empty slot of l holds an item above the ceiling
SomeItemOver(l, ceiling) ==
    \/ \E n \in NamedDrivers(l) : OverCeiling(DriverEntries, n, ceiling)
    \/ \E c \in NamedComponents(l) : OverCeiling(ComponentEntries, c[2], ceiling)

\* C21: for a known category, is_loadout_valid_for_category returns False
\* exactly when some non-empty driver or component slot holds an item whose
\* first catalog entry has a series above the category's max_series
C21_IneligibleIffOverCeiling ==
    (ValidCall /\ gp_call.category \in KnownCategories) =>
        ( (gp_result = FALSE) <=>
            SomeItemOver(gp_call.loadout, GP_CATEGORIES[gp_call.category].max_series) )

\* Challenger with one driver of series 7 (listed again later with series 2)
\* and nothing else was found ineligible
C21_Witness ==
    /\ ValidCall
    /\ catalog = FullCatalog
    /\ gp_call.category = "Challenger"
    /\ NamedDrivers(gp_call.loadout) = {"Verstappen"}
    /\ NamedComponents(gp_call.loadout) = {}
    /\ gp_result = FALSE

\* s contains sub
Contains(s, sub) ==
    \E i \in 1 .. (Len(s) - Len(sub) + 1) : SubSeq(s, i, i + Len(sub) - 1) = sub

SeriesOf(entries, n) ==
    LET i == CHOOSE k \in 1 .. Len(entries) :
                 entries[k].name = n /\ \A j \in 1 .. (k - 1) : entries[j].name # n
    IN  entries[i].series

\* C22: for a known category the validation message names every driver and
\* every component above the ceiling, each with its series, and says "valid"
\* exactly when is_loadout_valid_for_category accepts the same loadout
C22_MessageListsEveryItem ==
    (MessageCall /\ gp_call.category \in KnownCategories) =>
        LET l == gp_call.loadout
            ceiling == GP_CATEGORIES[gp_call.category].max_series
        IN  /\ (gp_result = "Loadout is valid for this category")
                  <=> is_loadout_valid_for_category(catalog, l, gp_call.category)
            /\ \A n \in NamedDrivers(l) :
                  OverCeiling(DriverEntries, n, ceiling) =>
                      Contains(gp_result, "Driver '" \o n \o "' is from Series "
                                            \o ToString(SeriesOf(DriverEntries, n)))
            /\ \A c \in NamedComponents(l) :
                  OverCeiling(ComponentEntries, c[2], ceiling) =>
                      Contains(gp_result, "'" \o c[2] \o "' is from Series "
                                            \o ToString(SeriesOf(ComponentEntries, c[2])))

\* a Challenger message that had to name two drivers and two components
C22_Witness ==
    /\ MessageCall
    /\ catalog = FullCatalog
    /\ gp_call.category = "Challenger"
    /\ NamedDrivers(gp_call.loadout) = {"Verstappen", "Legend"}
    /\ NamedComponents(gp_call.loadout) = {<<"gearbox", "Shift">>, <<"engine", "Mach">>}
    /\ gp_result = "Loadout contains items above Series 6:\n- "
                    \o "Driver 'Verstappen' is from Series 7\n- "
                    \o "Driver 'Legend' is from Series 13\n- "
                    \o "Gearbox 'Shift' is from Series 7\n- "
                    \o "Engine 'Mach' is from Series 13"

\* C23: Champion has no ceiling -- every loadout is eligible for it whatever
\* the series of its items -- while Challenger and Contender stop at 6 and 9
C23_ChampionNoCeiling ==
    /\ GP_CATEGORIES["Challenger"].max_series = 6
    /\ GP_CATEGORIES["Contender"].max_series = 9
    /\ (ValidCall /\ gp_call.category = "Champion") => gp_result = TRUE

\* C24: a lookup of a name the catalog does not list does not answer with a
\* series number, and a loadout naming only unlisted items is not passed as
\* eligible
C24_AbsentIsSignalled ==
    /\ (LookupCall /\ gp_call.op = "get_driver_series"
            /\ ~Listed(DriverEntries, gp_call.name)) => gp_result # 0
    /\ (LookupCall /\ gp_call.op = "get_component_series"
            /\ ~Listed(ComponentEntries, gp_call.name)) => gp_result # 0
    /\ (ValidCall /\ gp_call.category \in KnownCategories
            /\ NamedDrivers(gp_call.loadout) \cup NamedComponents(gp_call.loadout) # {}
            /\ \A n \in NamedDrivers(gp_call.loadout) : ~Listed(DriverEntries, n)
            /\ \A c \in NamedComponents(gp_call.loadout) : ~Listed(ComponentEntries, c[2]))
          => gp_result # TRUE

(***************************************************************************)
(* Loadout deletion: "Delete This Loadout" of manage_loadouts              *)
(***************************************************************************)

\* list.pop(index), index counted from 0
Pop(list, index) ==
    SubSeq(list, 1, index) \o SubSeq(list, index + 2, Len(list))

\* mutant: the ids are left as they were
RenumberKeepIds(list) == list

\* for i, ld in enumerate(loadouts, 1): ld['id'] = i
Renumber(list) == [i \in 1 .. Len(list) |-> [list[i] EXCEPT !.id = i]]

\* ---- inputs of the deletion

\* the longest saved list tried
MaxSaved == 4

LoadoutTitles == {"Monza", "Spa", "Monaco", "Suzuka", "Baku"}

\* the lists of at most MaxSaved loadouts with different titles
TitleLists ==
    { s \in UNION { [1 .. n -> LoadoutTitles] : n \in 0 .. MaxSaved } :
        \A i, j \in DOMAIN s : i # j => s[i] # s[j] }

\* loadouts.json as the application writes it: ids 1..N in list order
InitDelete ==
    /\ \E s \in TitleLists :
          saved_loadouts = [i \in 1 .. Len(s) |-> [id |-> i, title |-> s[i]]]
    /\ original_loadouts = saved_loadouts
    /\ UpgradeIdle
    /\ StatsIdle
    /\ SeriesIdle
    /\ GrandPrixIdle
    /\ AggregatorIdle
    /\ ImportIdle
    /\ StandardizeIdle

\* the handler of the "Delete This Loadout" button for the selected loadout;
\* the page returns earlier when the list is empty.  save_json_data either
\* writes the file or reports failure and leaves it as it was; the next run
\* of the page loads the list from the file again
DeleteThisLoadout ==
    /\ saved_loadouts # <<>>
    /\ \E selected_loadout_index \in 0 .. (Len(saved_loadouts) - 1), saved \in BOOLEAN :
          LET loadouts_after == Renumber(Pop(saved_loadouts, selected_loadout_index))
          IN  saved_loadouts' = IF saved THEN loadouts_after ELSE saved_loadouts
    /\ UNCHANGED <<original_loadouts, upgradeVars, statsVars, seriesVars, gpVars, aggVars, importVars, stdVars>>

NextDelete == DeleteThisLoadout

SpecDelete == InitDelete /\ [][NextDelete]_vars

(***************************************************************************)
(* Claims about loadout deletion                                           *)
(***************************************************************************)

\* the position of the loadout titled t in the list before any deletion
OriginalPosition(t) ==
    CHOOSE k \in 1 .. Len(original_loadouts) : original_loadouts[k].title = t

\* C27: after any sequence of deletions the saved list has the ids 1..M in
\* list order and holds surviving loadouts in their original relative order;
\* once something was deleted, some id of the original list denotes another
\* loadout or none
C27_IdsRenumbered ==
    /\ \A i \in 1 .. Len(saved_loadouts) : saved_loadouts[i].id = i
    /\ \A i \in 1 .. Len(saved_loadouts) :
          \E k \in 1 .. Len(original_loadouts) :
              original_loadouts[k].title = saved_loadouts[i].title
    /\ \A i, j \in 1 .. Len(saved_loadouts) :
          i < j => OriginalPosition(saved_loadouts[i].title)
                      < OriginalPosition(saved_loadouts[j].title)
    /\ Len(saved_loadouts) < Len(original_loadouts) =>
          \E k \in 1 .. Len(original_loadouts) :
              \/ k > Len(saved_loadouts)
              \/ saved_loadouts[k].title # original_loadouts[k].title

\* the middle one of three loadouts was deleted: id 2 now denotes the loadout
\* that had id 3, and id 3 denotes none
C27_Witness ==
    /\ Len(original_loadouts) = 3
    /\ Len(saved_loadouts) = 2
    /\ saved_loadouts[1] = original_loadouts[1]
    /\ saved_loadouts[2].title = original_loadouts[3].title
    /\ saved_loadouts[2].id = 2
    /\ original_loadouts[3].id = 3

(***************************************************************************)
(* standardize_driver                                                      *)
(***************************************************************************)

\* d[k] = v
DictSet(d, k, v) == [x \in DOMAIN d \cup {k} |-> IF x = k THEN v ELSE d[x]]

\* d without key k, as d.pop(k) leaves it
DictPop(d, k) == [x \in DOMAIN d \ {k} |-> d[x]]

\* one `if camel in stats and snake not in stats: ... elif ...` statement,
\* applied to the stats dictionary
StandardizeKey(stats, camel, snake) ==
    IF camel \in DOMAIN stats /\ snake \notin DOMAIN stats
    THEN DictSet(DictPop(stats, camel), snake, stats[camel])
    ELSE IF snake \in DOMAIN stats /\ camel \notin DOMAIN stats
         THEN DictSet(stats, camel, stats[snake])
         ELSE stats

\* the stats dictionary after both statements
StandardizeStats(stats) ==
    StandardizeKey(StandardizeKey(stats, "raceStart", "race_start"),
                   "tyreMgmt", "tyre_mgmt")

\* standardize_driver(driver_dict): `returned` is the dictionary it returns,
\* `caller` is driver_dict as the caller finds it afterwards.
\* driver_dict.copy() copies the top level only: an existing 'stats'
\* dictionary stays one object shared by the copy and the original, so what
\* is written to it is written to both; a missing 'stats' is added to the
\* copy alone.
standardize_driver(d) ==
    IF "stats" \notin DOMAIN d
    THEN [ returned |-> DictSet(d, "stats", EmptyDict), caller |-> d ]
    ELSE LET stats == StandardizeStats(d.stats)
         IN  [ returned |-> DictSet(d, "stats", stats),
               caller   |-> DictSet(d, "stats", stats) ]

\* ---- inputs of standardize_driver

RecordStatKeys == {"overtaking", "raceStart", "race_start", "tyreMgmt", "tyre_mgmt"}

RecordStatValues == {40, 55}

\* every stats dictionary over some of the keys, in either naming convention,
\* in both, or in a mixture
StatsInputs == UNION { [K -> RecordStatValues] : K \in SUBSET RecordStatKeys }

DriverInputs ==
    { [name |-> "Norris"] } \cup
    { [name |-> "Norris", stats |-> st] : st \in StatsInputs }

InitStandardize ==
    /\ driver_dict \in DriverInputs
    /\ std_call = NoneVal
    /\ std_result = NoneVal
    /\ UpgradeIdle
    /\ StatsIdle
    /\ SeriesIdle
    /\ GrandPrixIdle
    /\ AggregatorIdle
    /\ ImportIdle
    /\ DeleteIdle

StandardizeDriver ==
    /\ std_call = NoneVal
    /\ std_call' = [driver_dict |-> driver_dict]
    /\ std_result' = standardize_driver(driver_dict).returned
    /\ driver_dict' = standardize_driver(driver_dict).caller
    /\ UNCHANGED <<upgradeVars, statsVars, seriesVars, gpVars, aggVars, importVars, deleteVars>>

NextStandardize == StandardizeDriver

SpecStandardize == InitStandardize /\ [][NextStandardize]_vars

(***************************************************************************)
(* Claims about standardize_driver                                         *)
(***************************************************************************)

\* C30: after standardize_driver returned, the caller's driver record is
\* what it was when passed -- same keys, same stats keys, same values
C30_CallerUnmodified ==
    std_call # NoneVal => driver_dict = std_call.driver_dict

(***************************************************************************)
(* Importers that write item records: process_drivers_from_csv,            *)
(* process_components_from_csv and the drivers CSV import screen           *)
(***************************************************************************)

\* dict.update: the keys of u written over d
Merge(d, u) ==
    [k \in DOMAIN d \cup DOMAIN u |-> IF k \in DOMAIN u THEN u[k] ELSE d[k]]

\* update_item_upgrade_info applied to a stored record: it writes
\* highestLevel and upgradeInfo and leaves the other keys alone
WithUpgradeInfo(it, cards_owned_cell) ==
    Merge(it, [ highestLevel |-> update_item_upgrade_info(it, cards_owned_cell).highestLevel,
                upgradeInfo  |-> update_item_upgrade_info(it, cards_owned_cell).upgradeInfo ])

\* the body of `if driver["name"] == driver_name:` (and of the component twin)
TrackerUpdate(it, row) ==
    WithUpgradeInfo(Merge(it, [ level |-> row.Level, rarity |-> row.Rarity,
                                inInventory |-> TRUE ]),
                    row.CardsOwned)

\* new_driver / new_component after update_item_upgrade_info
TrackerNew(row) ==
    WithUpgradeInfo([ name |-> row.Name, level |-> row.Level, rarity |-> row.Rarity,
                      inInventory |-> TRUE,
                      upgradeInfo |-> [ cardsOwned |-> row.CardsOwned,
                                        cardsNeeded |-> 0, totalCards |-> 0 ] ],
                    row.CardsOwned)

\* the index of the first item named n, 0 when there is none
FirstIndexNamed(items, n) ==
    IF \E i \in 1 .. Len(items) : items[i].name = n
    THEN CHOOSE i \in 1 .. Len(items) :
            items[i].name = n /\ \A j \in 1 .. (i - 1) : items[j].name # n
    ELSE 0

\* one pass of the row loop: the first item of that name is updated, or a new
\* item is appended
ApplyTrackerRow(items, row) ==
    LET i == FirstIndexNamed(items, row.Name)
    IN  IF i > 0 THEN [items EXCEPT ![i] = TrackerUpdate(items[i], row)]
        ELSE Append(items, TrackerNew(row))

RECURSIVE ApplyDriverRows(_, _)
ApplyDriverRows(drivers, rows) ==
    IF rows = <<>> THEN drivers
    ELSE ApplyDriverRows(ApplyTrackerRow(drivers, Head(rows)), Tail(rows))

\* df[df["Type"] == "Driver"]
RECURSIVE DriverFrame(_)
DriverFrame(df) ==
    IF df = <<>> THEN <<>>
    ELSE (IF Head(df).Type = "Driver" THEN <<Head(df)>> ELSE <<>>) \o DriverFrame(Tail(df))

\* df[df["Type"] != "Driver"]
RECURSIVE ComponentFrame(_)
ComponentFrame(df) ==
    IF df = <<>> THEN <<>>
    ELSE (IF Head(df).Type # "Driver" THEN <<Head(df)>> ELSE <<>>) \o ComponentFrame(Tail(df))

\* process_drivers_from_csv: `success` is what it reports, `file` is
\* drivers.json afterwards
process_drivers_from_csv(drivers_file, df, save_ok) ==
    LET driver_df == DriverFrame(df)
        drivers_data == IF drivers_file = EmptyDict THEN [drivers |-> <<>>]
                        ELSE drivers_file
        drivers == ApplyDriverRows(DictGet(drivers_data, "drivers", <<>>), driver_df)
    IN  IF driver_df = <<>> THEN [success |-> FALSE, file |-> drivers_file]
        ELSE IF save_ok
             THEN [success |-> TRUE, file |-> Merge(drivers_data, [drivers |-> drivers])]
             ELSE [success |-> FALSE, file |-> drivers_file]

component_type_map ==
    ( "Brakes" :> "brakes" @@ "Gearbox" :> "gearbox" @@ "Rear Wing" :> "rear_wing"
      @@ "Front Wing" :> "front_wing" @@ "Suspension" :> "suspension"
      @@ "Engine" :> "engine" )

\* the component_data used when the file is missing or empty
EmptyComponentData ==
    [ brakes |-> <<>>, gearbox |-> <<>>, rear_wing |-> <<>>, front_wing |-> <<>>,
      suspension |-> <<>>, engine |-> <<>> ]

\* the row loop of process_components_from_csv: the data and updates_made
RECURSIVE ApplyComponentRows(_, _, _)
ApplyComponentRows(component_data, updates_made, rows) ==
    IF rows = <<>> THEN [data |-> component_data, updates_made |-> updates_made]
    ELSE LET row == Head(rows)
         IN  IF row.Type \notin DOMAIN component_type_map
             THEN ApplyComponentRows(component_data, updates_made, Tail(rows))
             ELSE LET component_key == component_type_map[row.Type]
                      components == DictGet(component_data, component_key, <<>>)
                  IN  ApplyComponentRows(
                          Merge(component_data,
                                component_key :> ApplyTrackerRow(components, row)),
                          updates_made + 1, Tail(rows))

process_components_from_csv(component_file, df, save_ok) ==
    LET component_df == ComponentFrame(df)
        component_data == IF component_file = EmptyDict THEN EmptyComponentData
                          ELSE component_file
        done == ApplyComponentRows(component_data, 0, component_df)
    IN  IF component_df = <<>> THEN [success |-> FALSE, file |-> component_file]
        ELSE IF done.updates_made > 0 /\ save_ok
             THEN [success |-> TRUE, file |-> done.data]
             ELSE [success |-> FALSE, file |-> component_file]

\* the assignments of one matching row on the CSV import screen, then
\* standardize_driver; << >> when a key the assignments index is missing
\* (KeyError)
ScreenUpdate(driver, row) ==
    IF "upgradeInfo" \notin DOMAIN driver \/ "stats" \notin DOMAIN driver THEN <<>>
    ELSE << standardize_driver(
              Merge(driver,
                [ level        |-> safe_int(row.Level),
                  highestLevel |-> safe_int(row.MaxLevel),
                  upgradeInfo  |-> Merge(driver.upgradeInfo,
                                     [ cardsOwned  |-> safe_int(row.Cards),
                                       cardsNeeded |-> safe_int(row.CardsNeeded),
                                       coinsNeeded |-> safe_int(row.CoinsNeeded) ]),
                  totalValue   |-> safe_int(row.TotalValue),
                  series       |-> safe_int(row.Series),
                  inInventory  |-> row.InInventory,
                  stats        |-> Merge(driver.stats,
                                     [ overtaking |-> safe_int(row.Overtaking),
                                       defending  |-> safe_int(row.Defending),
                                       qualifying |-> safe_int(row.Qualifying),
                                       raceStart  |-> safe_int(row.RaceStart),
                                       race_start |-> safe_int(row.RaceStart),
                                       tyreMgmt   |-> safe_int(row.TyreMgmt),
                                       tyre_mgmt  |-> safe_int(row.TyreMgmt) ]) ])
              ).returned >>

\* driver_lookup[f"{name}_{rarity}"]: the last driver with that name and
\* rarity, then driver_data["drivers"].index(driver): the first equal record
ScreenIndex(drivers, row) ==
    IF \E i \in 1 .. Len(drivers) :
          drivers[i].name = row.Name /\ drivers[i].rarity = row.Rarity
    THEN LET last == CHOOSE i \in 1 .. Len(drivers) :
                        /\ drivers[i].name = row.Name /\ drivers[i].rarity = row.Rarity
                        /\ \A j \in (i + 1) .. Len(drivers) :
                              ~(drivers[j].name = row.Name /\ drivers[j].rarity = row.Rarity)
         IN  CHOOSE i \in 1 .. Len(drivers) :
                /\ drivers[i] = drivers[last]
                /\ \A j \in 1 .. (i - 1) : drivers[j] # drivers[last]
    ELSE 0

\* the row loop of "Import and Update Drivers"; driver_lookup is built from
\* the list as loaded.  raised is TRUE when an assignment raised
RECURSIVE ApplyScreenRows(_, _, _, _)
ApplyScreenRows(loaded, drivers, updates_made, rows) ==
    IF rows = <<>>
    THEN [drivers |-> drivers, updates_made |-> updates_made, raised |-> FALSE]
    ELSE LET row == Head(rows)
             i == ScreenIndex(loaded, row)
         IN  IF i = 0 THEN ApplyScreenRows(loaded, drivers, updates_made, Tail(rows))
             ELSE LET new == ScreenUpdate(drivers[i], row)
                  IN  IF new = <<>>
                      THEN [drivers |-> drivers, updates_made |-> updates_made,
                            raised |-> TRUE]
                      ELSE ApplyScreenRows(loaded, [drivers EXCEPT ![i] = new[1]],
                                           updates_made + 1, Tail(rows))

\* "Import and Update Drivers" of manage_drivers
import_and_update_drivers(drivers_file, import_df, save_ok) ==
    IF drivers_file = EmptyDict \/ "drivers" \notin DOMAIN drivers_file
    THEN [success |-> FALSE, file |-> drivers_file]
    ELSE LET done == ApplyScreenRows(drivers_file.drivers, drivers_file.drivers, 0,
                                     import_df)
         IN  IF ~done.raised /\ done.updates_made > 0 /\ save_ok
             THEN [success |-> TRUE,
                   file |-> Merge(drivers_file, [drivers |-> done.drivers])]
             ELSE [success |-> FALSE, file |-> drivers_file]

\* ---- inputs of the importers

\* the longest CSV tried, in rows
MaxCsvRows == 2

TrackerRow(type, name, level) ==
    [ Type |-> type, Name |-> name, Rarity |-> "Epic", Level |-> level,
      CardsOwned |-> 7 ]

\* rows of an Input Tracker CSV: drivers, components, a type the importer
\* does not know; owned items and items at level 0
TrackerRows ==
    { TrackerRow("Driver", n, l) : n \in {"Norris", "Sainz"}, l \in {0, 3} }
    \cup { TrackerRow(t, n, l) : t \in {"Brakes", "Wheels"}, n \in {"Pivot", "Flow"},
                                  l \in {0, 3} }

TrackerFrames == UNION { [1 .. n -> TrackerRows] : n \in 1 .. MaxCsvRows }

\* a row of the drivers CSV, its cells as the file's text; "In Inventory" as
\* the boolean pandas parsed
ScreenRow(name, level, in_inventory) ==
    [ Name |-> name, Rarity |-> "Epic", Level |-> level, MaxLevel |-> "4",
      Cards |-> "7", CardsNeeded |-> "1,380", CoinsNeeded |-> "0",
      TotalValue |-> "120", Series |-> "3", InInventory |-> in_inventory,
      Overtaking |-> "30", Defending |-> "25", Qualifying |-> "20",
      RaceStart |-> "24", TyreMgmt |-> "21" ]

ScreenRows ==
    { ScreenRow(n, l, b) : n \in {"Norris", "Sainz"}, l \in {"0", "3", ""},
                           b \in BOOLEAN }

ScreenFrames == UNION { [1 .. n -> ScreenRows] : n \in 1 .. MaxCsvRows }

\* a driver as drivers.json holds it
StoredDriver ==
    [ name |-> "Norris", rarity |-> "Epic", level |-> 2, highestLevel |-> 3,
      series |-> 3, inInventory |-> TRUE, totalValue |-> 100,
      stats |-> [ overtaking |-> 26, defending |-> 21, qualifying |-> 17,
                  raceStart |-> 19 , tyreMgmt |-> 17 ],
      upgradeInfo |-> [ cardsOwned |-> 3, cardsNeeded |-> 1437, maxCards |-> 1438,
                        coinsNeeded |-> 0 ] ]

\* a component the tracker import added before, not owned
StoredComponent ==
    [ name |-> "Pivot", rarity |-> "Epic", level |-> 0, highestLevel |-> 0,
      inInventory |-> FALSE,
      upgradeInfo |-> [ cardsOwned |-> 0, cardsNeeded |-> 0, totalCards |-> 0 ] ]

\* the item files before an import: missing (load_json_data gives {}) or
\* holding records whose flag agrees with their level
InventoryInputs ==
    { [ drivers_file |-> EmptyDict, component_file |-> EmptyDict ],
      [ drivers_file |-> [drivers |-> << StoredDriver >>],
        component_file |-> Merge(EmptyComponentData, "brakes" :> << StoredComponent >>) ] }

InitImport ==
    /\ inventory \in InventoryInputs
    /\ import_call = NoneVal
    /\ import_result = NoneVal
    /\ UpgradeIdle
    /\ StatsIdle
    /\ SeriesIdle
    /\ GrandPrixIdle
    /\ AggregatorIdle
    /\ DeleteIdle
    /\ StandardizeIdle

ProcessDriversFromCsv ==
    /\ import_call = NoneVal
    /\ \E df \in TrackerFrames, save_ok \in BOOLEAN :
          \E out \in { process_drivers_from_csv(inventory.drivers_file, df, save_ok) } :
              /\ import_call' = [op |-> "process_drivers_from_csv", df |-> df]
              /\ import_result' = out.success
              /\ inventory' = [inventory EXCEPT !.drivers_file = out.file]
    /\ UNCHANGED <<upgradeVars, statsVars, seriesVars, gpVars, aggVars, deleteVars, stdVars>>

ProcessComponentsFromCsv ==
    /\ import_call = NoneVal
    /\ \E df \in TrackerFrames, save_ok \in BOOLEAN :
          \E out \in { process_components_from_csv(inventory.component_file, df, save_ok) } :
              /\ import_call' = [op |-> "process_components_from_csv", df |-> df]
              /\ import_result' = out.success
              /\ inventory' = [inventory EXCEPT !.component_file = out.file]
    /\ UNCHANGED <<upgradeVars, statsVars, seriesVars, gpVars, aggVars, deleteVars, stdVars>>

ImportAndUpdateDrivers ==
    /\ import_call = NoneVal
    /\ \E df \in ScreenFrames, save_ok \in BOOLEAN :
          \E out \in { import_and_update_drivers(inventory.drivers_file, df, save_ok) } :
              /\ import_call' = [op |-> "import_and_update_drivers", df |-> df]
              /\ import_result' = out.success
              /\ inventory' = [inventory EXCEPT !.drivers_file = out.file]
    /\ UNCHANGED <<upgradeVars, statsVars, seriesVars, gpVars, aggVars, deleteVars, stdVars>>

NextImport ==
    \/ ProcessDriversFromCsv
    \/ ProcessComponentsFromCsv
    \/ ImportAndUpdateDrivers

SpecImport == InitImport /\ [][NextImport]_vars

(***************************************************************************)
(* Claims about the importers                                              *)
(***************************************************************************)

\* every item record the files hold
StoredItems ==
    (IF "drivers" \in DOMAIN inventory.drivers_file
     THEN { inventory.drivers_file.drivers[i] :
                i \in 1 .. Len(inventory.drivers_file.drivers) }
     ELSE {})
    \cup UNION { { inventory.component_file[k][i] :
                      i \in 1 .. Len(inventory.component_file[k]) } :
                 k \in DOMAIN inventory.component_file }

\* C26: every stored item record has inInventory equal to (level > 0), also
\* after an import wrote rows whose level is 0
C26_InInventoryIffOwned ==
    \A it \in StoredItems : it.inInventory = (it.level > 0)

(***************************************************************************)
(* Loadout aggregator: aggregate(drivers[2], components[6])                *)
(***************************************************************************)

\* an empty slot
EmptySlot == [name |-> ""]

\* a slot holds an item
Filled(slot) == slot.name # ""

\* the value of car stat `stat` a component slot contributes
CarStatOf(slot, stat) == IF Filled(slot) THEN slot.stats[stat] ELSE 0

\* the pit_time a slot contributes, a rational
PitTimeOf(slot) == IF Filled(slot) THEN slot.stats.pit_time ELSE RatInt(0)

\* the value of a driver stat a driver slot contributes; race_start and
\* tyre_mgmt are read under either of their two key names
DriverStatOf(slot, snake, camel) ==
    IF ~Filled(slot) THEN 0
    ELSE IF snake \in DOMAIN slot.stats THEN slot.stats[snake]
    ELSE IF camel \in DOMAIN slot.stats THEN slot.stats[camel]
    ELSE 0

\* one car stat summed over the component slots from index i on
RECURSIVE SumCarStat(_, _, _)
SumCarStat(slots, i, stat) ==
    IF i > Len(slots) THEN 0
    ELSE CarStatOf(slots[i], stat) + SumCarStat(slots, i + 1, stat)

\* one driver stat summed over the driver slots from index i on
RECURSIVE SumDriverStat(_, _, _, _)
SumDriverStat(slots, i, snake, camel) ==
    IF i > Len(slots) THEN 0
    ELSE DriverStatOf(slots[i], snake, camel) + SumDriverStat(slots, i + 1, snake, camel)

RECURSIVE SumPitTime(_, _)
SumPitTime(slots, i) ==
    IF i > Len(slots) THEN RatInt(0)
    ELSE RatAdd(PitTimeOf(slots[i]), SumPitTime(slots, i + 1))

\* carStats: every car stat summed over the six component slots
CarStatsOf(components) ==
    LET Total(stat) == SumCarStat(components, 1, stat)
    IN  [ speed |-> Total("speed"), cornering |-> Total("cornering"),
          power_unit |-> Total("power_unit"), qualifying |-> Total("qualifying"),
          pit_time |-> SumPitTime(components, 1) ]

\* driverStats: every driver stat summed over the two driver slots, under
\* the canonical snake-case names
DriverStatsOf(drivers) ==
    LET Total(snake, camel) == SumDriverStat(drivers, 1, snake, camel)
    IN  [ overtaking |-> Total("overtaking", "overtaking"),
          defending  |-> Total("defending", "defending"),
          qualifying |-> Total("qualifying", "qualifying"),
          race_start |-> Total("race_start", "raceStart"),
          tyre_mgmt  |-> Total("tyre_mgmt", "tyreMgmt") ]

\* mutant: pit_time is counted into the total like the other car stats
aggregate_with_pit_time(drivers, components) ==
    LET car_stats == CarStatsOf(components)
        driver_stats == DriverStatsOf(drivers)
    IN  [ car_stats |-> car_stats, driver_stats |-> driver_stats,
          total_value |->
              car_stats.speed + car_stats.cornering + car_stats.power_unit
              + car_stats.qualifying + (car_stats.pit_time.n \div car_stats.pit_time.d)
              + driver_stats.overtaking + driver_stats.defending
              + driver_stats.qualifying + driver_stats.race_start
              + driver_stats.tyre_mgmt ]

\* aggregate: the calculations block of a loadout
aggregate(drivers, components) ==
    LET car_stats == CarStatsOf(components)
        driver_stats == DriverStatsOf(drivers)
    IN  [ car_stats |-> car_stats, driver_stats |-> driver_stats,
          total_value |->
              car_stats.speed + car_stats.cornering + car_stats.power_unit
              + car_stats.qualifying
              + driver_stats.overtaking + driver_stats.defending
              + driver_stats.qualifying + driver_stats.race_start
              + driver_stats.tyre_mgmt ]

\* ---- inputs of the aggregator

Component(name, speed, cornering, power_unit, qualifying) ==
    [ name |-> name,
      stats |-> [ speed |-> speed, cornering |-> cornering, power_unit |-> power_unit,
                  qualifying |-> qualifying, pit_time |-> RatInt(2) ] ]

\* one component for each of the six slots; together they sum to speed 50,
\* cornering 40, power_unit 30, qualifying 20, pit_time 12.0
SlotComponents ==
    << Component("Pivot", 10, 10, 5, 5), Component("Shift", 10, 10, 5, 5),
       Component("Flow", 10, 5, 5, 5), Component("Edge", 10, 5, 5, 5),
       Component("Glide", 5, 5, 5, 0), Component("Turbo", 5, 5, 5, 0) >>

\* every way to fill some of the six slots
ComponentSlots ==
    { [k \in 1 .. 6 |-> IF k \in filled THEN SlotComponents[k] ELSE EmptySlot] :
        filled \in SUBSET (1 .. 6) }

\* a driver slot: empty, a driver with snake-case keys, one with camel-case keys
AggDriverSlots ==
    { EmptySlot,
      [ name |-> "Norris",
        stats |-> [ overtaking |-> 30, defending |-> 25, qualifying |-> 20,
                    race_start |-> 24, tyre_mgmt |-> 21 ] ],
      [ name |-> "Sainz",
        stats |-> [ overtaking |-> 18, defending |-> 22, qualifying |-> 15,
                    raceStart |-> 17, tyreMgmt |-> 19 ] ] }

InitAggregate ==
    /\ agg_call = NoneVal
    /\ agg_result = NoneVal
    /\ UpgradeIdle
    /\ StatsIdle
    /\ SeriesIdle
    /\ GrandPrixIdle
    /\ ImportIdle
    /\ DeleteIdle
    /\ StandardizeIdle

Aggregate ==
    /\ agg_call = NoneVal
    /\ \E d1 \in AggDriverSlots, d2 \in AggDriverSlots, c \in ComponentSlots :
          /\ agg_call' = [drivers |-> <<d1, d2>>, components |-> c]
          /\ agg_result' = aggregate(<<d1, d2>>, c)
    /\ UNCHANGED <<upgradeVars, statsVars, seriesVars, gpVars, importVars, deleteVars, stdVars>>

NextAggregate == Aggregate

SpecAggregate == InitAggregate /\ [][NextAggregate]_vars

(***************************************************************************)
(* Claims about the loadout aggregator                                     *)
(***************************************************************************)

\* what one component slot is worth: its four car stats, pit_time left out
ComponentWorth(slot) ==
    IF slot.name = "" THEN 0
    ELSE slot.stats.speed + slot.stats.cornering + slot.stats.power_unit
         + slot.stats.qualifying

\* what one driver slot is worth: its five stats under whichever key names
DriverWorth(slot) ==
    IF slot.name = "" THEN 0
    ELSE slot.stats.overtaking + slot.stats.defending + slot.stats.qualifying
         + (IF "race_start" \in DOMAIN slot.stats THEN slot.stats.race_start
            ELSE slot.stats.raceStart)
         + (IF "tyre_mgmt" \in DOMAIN slot.stats THEN slot.stats.tyre_mgmt
            ELSE slot.stats.tyreMgmt)

\* C25: total_value is the sum over the six component slots of speed +
\* cornering + power_unit + qualifying (pit_time excluded) plus the sum over
\* the two driver slots of the five driver stats, empty slots counting 0
C25_TotalValue ==
    agg_call # NoneVal =>
        agg_result.total_value =
            ComponentWorth(agg_call.components[1]) + ComponentWorth(agg_call.components[2])
            + ComponentWorth(agg_call.components[3]) + ComponentWorth(agg_call.components[4])
            + ComponentWorth(agg_call.components[5]) + ComponentWorth(agg_call.components[6])
            + DriverWorth(agg_call.drivers[1]) + DriverWorth(agg_call.drivers[2])

\* both driver slots empty, six components summing to speed 50, cornering 40,
\* power_unit 30, qualifying 20, pit_time 12.0: total_value 140
C25_Witness ==
    /\ agg_call # NoneVal
    /\ agg_call.drivers = << EmptySlot, EmptySlot >>
    /\ agg_result.car_stats = [ speed |-> 50, cornering |-> 40, power_unit |-> 30,
                                qualifying |-> 20, pit_time |-> RatInt(12) ]
    /\ agg_result.total_value = 140

====
